---- MODULE Spec2Model ----
(***************************************************************************)
(* A model of sqlalchemy/sql/selectable.py: the FROM-clause objects        *)
(* (TableClause, Alias, Join, FromGrouping, Select, CompoundSelect) live   *)
(* in a heap `objs`; an object's identity is its index in the heap.        *)
(* The caller holds one Select, `cur`, and works on it with the generative *)
(* methods, the in-place append_* methods and cloning.                     *)
(***************************************************************************)
EXTENDS Integers, Sequences, FiniteSets, TLC

VARIABLES objs, cur, lastOp, ngen, nclone

vars == <<objs, cur, lastOp, ngen, nclone>>

(***************************************************************************)
(* Bounds of the model.                                                    *)
(***************************************************************************)
\* number of generative calls the caller makes in a row
MaxGen == 2
\* number of cloning traversals the caller runs
MaxClone == 1

(***************************************************************************)
(* The objects every behaviour starts with.                                *)
(***************************************************************************)
T1 == 1   \* table("t1", column("a"), column("b"))
T2 == 2   \* table("t2", column("a"), column("b"))
T3 == 3   \* table("t3", column("a"), column("b"))
A1 == 4   \* T1.alias()
J1 == 5   \* T1.join(T2, T1.c.a == T2.c.a)
G1 == 6   \* J1.self_group(), made by Join.__init__ of J2
J2 == 7   \* A1.join(J1, A1.c.a == T1.c.a)
SA == 8   \* select([T1.c.a])
SB == 9   \* select([T2.c.a])
U1 == 10  \* CompoundSelect(UNION, SA, SB)
A1C == 11 \* a copy of A1 made by an earlier cloning traversal
S0 == 12  \* the Select the caller starts with

NoCorrelateExcept == [isset |-> FALSE, items |-> {}]

Col(t, k) == [t |-> t, k |-> k]

\* a blank object: every field an instance of any class may carry
Blank(kind) ==
    [kind |-> kind, clone_of |-> 0,
     left |-> 0, right |-> 0, onclause |-> <<>>, isouter |-> FALSE,
     element |-> 0, selects |-> <<>>,
     raw_columns |-> <<>>, whereclause |-> <<>>, having |-> <<>>,
     order_by |-> <<>>, group_by |-> <<>>, limit |-> -1, offset |-> -1,
     distinct |-> [on |-> FALSE, exprs |-> <<>>],
     from_obj |-> <<>>, correlate |-> {},
     correlate_except |-> NoCorrelateExcept,
     auto_correlate |-> FALSE, from_cloned |-> {}, use_labels |-> FALSE,
     populated |-> FALSE, columns |-> <<>>,
     _columns |-> <<>>, memo |-> {}, npopulate |-> 0, foreign_keys |-> {},
     name |-> [id |-> -1, name |-> ""], addr |-> 0, alive |-> TRUE,
     cte |-> FALSE, recursive |-> FALSE, _restates |-> {}, keyword |-> ""]

TableClause(name) ==
    [Blank("table") EXCEPT !.populated = TRUE, !.name = [id |-> -1, name |-> name]]

(***************************************************************************)
(* Sequence helpers.                                                       *)
(***************************************************************************)
Range(s) == {s[i] : i \in 1..Len(s)}

Without(s, S) == SelectSeq(s, LAMBDA f : f \notin S)

RECURSIVE Chain(_)
Chain(ss) == IF ss = <<>> THEN <<>> ELSE Head(ss) \o Chain(Tail(ss))

\* util.OrderedSet(seq): first occurrences, in order
RECURSIVE OrderedSet(_)
OrderedSet(s) ==
    IF s = <<>> THEN <<>>
    ELSE LET r == OrderedSet(SubSeq(s, 1, Len(s) - 1))
             x == s[Len(s)]
         IN IF x \in Range(r) THEN r ELSE Append(r, x)

\* the members of a set of object ids, in ascending order
RECURSIVE Ascending(_)
Ascending(S) ==
    IF S = {} THEN <<>>
    ELSE LET m == CHOOSE x \in S : \A y \in S : x <= y
         IN <<m>> \o Ascending(S \ {m})

(***************************************************************************)
(* Clone identity.                                                         *)
(***************************************************************************)
\* ClauseElement._cloned_set: the element and everything it is a copy of
RECURSIVE _cloned_set(_, _)
_cloned_set(h, x) ==
    IF x = 0 THEN {} ELSE {x} \cup _cloned_set(h, h[x].clone_of)

_expand_cloned(h, elements) == UNION {_cloned_set(h, x) : x \in elements}

_cloned_intersection(h, a, b) ==
    LET all_overlap == _expand_cloned(h, a) \cap _expand_cloned(h, b)
    IN {elem \in a : all_overlap \cap _cloned_set(h, elem) # {}}

_cloned_difference(h, a, b) ==
    LET all_overlap == _expand_cloned(h, a) \cap _expand_cloned(h, b)
    IN {elem \in a : all_overlap \cap _cloned_set(h, elem) = {}}

_is_lexical_equivalent(h, x, other) ==
    _cloned_set(h, x) \cap _cloned_set(h, other) # {}

(***************************************************************************)
(* _from_objects and _hide_froms of each class.                            *)
(***************************************************************************)
\* the FROM objects of an expression over columns: each column's table
ClauseFroms(clause) == [i \in 1..Len(clause) |-> clause[i].t]

RECURSIVE _from_objects(_, _)
_from_objects(h, x) ==
    LET o == h[x]
    IN CASE o.kind = "join" ->
              <<x>> \o ClauseFroms(o.onclause)
                    \o _from_objects(h, o.left) \o _from_objects(h, o.right)
         [] o.kind = "grouping" -> _from_objects(h, o.element)
         [] OTHER -> <<x>>

\* _from_objects(*elements) over the raw columns of a Select: an entry is a
\* column (key k) of FROM object t, or the FROM object t itself (k = "*")
RawFromObjects(h, items) ==
    Chain([i \in 1..Len(items) |->
             IF items[i].k = "*" THEN _from_objects(h, items[i].t)
             ELSE <<items[i].t>>])

\* faulty variant: only the left side of the join is hidden
Join_hide_froms_left_only(h, x) ==
    UNION {Range(_from_objects(h, h[y].left)) : y \in _cloned_set(h, x)}

Join_hide_froms(h, x) ==
    UNION {Range(_from_objects(h, h[y].left) \o _from_objects(h, h[y].right))
             : y \in _cloned_set(h, x)}

RECURSIVE _hide_froms(_, _)
_hide_froms(h, x) ==
    CASE h[x].kind = "join" -> Join_hide_froms(h, x)
      [] h[x].kind = "grouping" -> _hide_froms(h, h[x].element)
      [] OTHER -> {}

(***************************************************************************)
(* Select._froms and Select._get_display_froms.                            *)
(***************************************************************************)
\* translate[item] when the Select keeps clones of its froms
Translate(tr, item) ==
    IF \E p \in tr : p[1] = item
    THEN (CHOOSE p \in tr : p[1] = item)[2]
    ELSE item

\* the local function add(items) of Select._froms
RECURSIVE add(_, _, _, _)
add(h, tr, items, st) ==
    IF items = <<>> THEN st
    ELSE LET item == Translate(tr, Head(items))
             cs   == _cloned_set(h, item)
         IN add(h, tr, Tail(items),
                [froms |-> IF st.seen \cap cs = {}
                           THEN Append(st.froms, item) ELSE st.froms,
                 seen  |-> st.seen \cup cs])

\* faulty variant: the explicit FROM list is collected first
_froms_from_obj_first(h, s) ==
    LET o   == h[s]
        st1 == add(h, o.from_cloned, o.from_obj,
                   [froms |-> <<>>, seen |-> {}])
        st2 == add(h, o.from_cloned, RawFromObjects(h, o.raw_columns), st1)
    IN add(h, o.from_cloned, ClauseFroms(o.whereclause), st2).froms

_froms(h, s) ==
    LET o   == h[s]
        st1 == add(h, o.from_cloned, RawFromObjects(h, o.raw_columns),
                   [froms |-> <<>>, seen |-> {}])
        st2 == IF o.whereclause # <<>>
               THEN add(h, o.from_cloned, ClauseFroms(o.whereclause), st1)
               ELSE st1
    IN add(h, o.from_cloned, o.from_obj, st2).froms

\* the set toremove of _get_display_froms
HiddenFroms(h, s) ==
    LET toremove == UNION {_expand_cloned(h, _hide_froms(h, f))
                             : f \in Range(_froms(h, s))}
        fc == h[s].from_cloned
    IN IF toremove # {} /\ fc # {}
       THEN toremove \cup
            {p[2] : p \in {q \in fc : /\ q[1] \in toremove
                                      /\ _is_lexical_equivalent(h, q[2], q[1])}}
       ELSE toremove

\* froms once the sources rendered inside another source are taken out
DisplayHide(h, s) == Without(_froms(h, s), HiddenFroms(h, s))

\* the filter applied when self._correlate is set
DisplayCorrelate(h, s, froms, explicit) ==
    IF h[s].correlate # {}
    THEN Without(froms,
            _cloned_intersection(h,
                _cloned_intersection(h, Range(froms), explicit),
                h[s].correlate))
    ELSE froms

\* the filter applied when self._correlate_except is not None
DisplayCorrelateExcept(h, s, froms, explicit) ==
    IF h[s].correlate_except.isset
    THEN Without(froms,
            _cloned_difference(h,
                _cloned_intersection(h, Range(froms), explicit),
                h[s].correlate_except.items))
    ELSE froms

\* whether the auto-correlation branch is taken
AutoCorrelates(h, s, froms, implicit) ==
    h[s].auto_correlate /\ implicit # {} /\ Len(froms) > 1

\* faulty variant: the enclosed sources are not taken out
DisplayAuto_keeps_all(h, s, froms, implicit) == froms

DisplayAuto(h, s, froms, implicit) ==
    IF AutoCorrelates(h, s, froms, implicit)
    THEN Without(froms, _cloned_intersection(h, Range(froms), implicit))
    ELSE froms

\* faulty variant: an auto-correlation that leaves nothing returns the empty list
_get_display_froms_returns_empty(h, s, explicit, implicit) ==
    [err |-> "",
     froms |-> DisplayAuto(h, s,
                  DisplayCorrelateExcept(h, s,
                     DisplayCorrelate(h, s, DisplayHide(h, s), explicit),
                     explicit),
                  implicit)]

\* the outcome of _get_display_froms: the list, or the error it raises.
\* None and () are the empty set of enclosing froms.
_get_display_froms(h, s, explicit, implicit) ==
    LET f1 == DisplayHide(h, s)
        f2 == DisplayCorrelate(h, s, f1, explicit)
        f3 == DisplayCorrelateExcept(h, s, f2, explicit)
        f4 == DisplayAuto(h, s, f3, implicit)
    IN IF AutoCorrelates(h, s, f3, implicit) /\ Len(f4) = 0
       THEN [err |-> "InvalidRequestError", froms |-> <<>>]
       ELSE [err |-> "", froms |-> f4]

\* the froms property
froms(h, s) == _get_display_froms(h, s, {}, {})

locate_all_froms(h, s) ==
    LET fs == _froms(h, s)
    IN fs \o Chain([i \in 1..Len(fs) |-> _from_objects(h, fs[i])])

(***************************************************************************)
(* is_derived_from of each class.                                          *)
(***************************************************************************)
RECURSIVE is_derived_from(_, _, _)

FromClause_is_derived_from(h, x, fromclause) ==
    fromclause \in _cloned_set(h, x)

Join_is_derived_from(h, x, fromclause) ==
    \/ fromclause = x
    \/ is_derived_from(h, h[x].left, fromclause)
    \/ is_derived_from(h, h[x].right, fromclause)

\* faulty variant: the cloned-set test left out
Alias_is_derived_from_element_only(h, x, fromclause) ==
    is_derived_from(h, h[x].element, fromclause)

Alias_is_derived_from(h, x, fromclause) ==
    IF fromclause \in _cloned_set(h, x) THEN TRUE
    ELSE is_derived_from(h, h[x].element, fromclause)

\* faulty variant: the test of the base class, the element not asked
FromGrouping_is_derived_from_as_base(h, x, element) ==
    element \in _cloned_set(h, x)

FromGrouping_is_derived_from(h, x, element) ==
    is_derived_from(h, h[x].element, element)

CompoundSelect_is_derived_from(h, x, fromclause) ==
    \E i \in 1..Len(h[x].selects) :
        is_derived_from(h, h[x].selects[i], fromclause)

\* faulty variant: the membership test written as in the base class
Select_is_derived_from_as_base(h, x, fromclause) ==
    IF fromclause \in _cloned_set(h, x) THEN TRUE
    ELSE \E f \in Range(locate_all_froms(h, x)) :
            is_derived_from(h, f, fromclause)

Select_is_derived_from(h, x, fromclause) ==
    IF x \in _cloned_set(h, fromclause) THEN TRUE
    ELSE \E f \in Range(locate_all_froms(h, x)) :
            is_derived_from(h, f, fromclause)

is_derived_from(h, x, fromclause) ==
    CASE h[x].kind = "join" -> Join_is_derived_from(h, x, fromclause)
      [] h[x].kind = "alias" -> Alias_is_derived_from(h, x, fromclause)
      [] h[x].kind = "grouping" -> FromGrouping_is_derived_from(h, x, fromclause)
      [] h[x].kind = "compound" -> CompoundSelect_is_derived_from(h, x, fromclause)
      [] h[x].kind = "select" -> Select_is_derived_from(h, x, fromclause)
      [] OTHER -> FromClause_is_derived_from(h, x, fromclause)

(***************************************************************************)
(* Memoized column collection.                                             *)
(***************************************************************************)
\* FromClause._reset_exported: drop the memoized collections
_reset_exported(o) ==
    [o EXCEPT !.populated = FALSE, !.columns = <<>>,
              !._columns = <<>>, !.memo = {}, !.npopulate = 0,
              !.foreign_keys = {}]

\* the columns of a table, in order
TableColumns(t) == <<Col(t, "a"), Col(t, "b")>>

\* _select_iterables(raw_columns): a FROM object stands for its columns
SelectIterables(items) ==
    Chain([i \in 1..Len(items) |->
             IF items[i].k = "*" THEN TableColumns(items[i].t)
             ELSE <<items[i]>>])

\* dict assignment coll[key] = col: a known key keeps its position
SetItem(coll, key, col) ==
    IF \E i \in 1..Len(coll) : coll[i].key = key
    THEN [i \in 1..Len(coll) |->
            IF coll[i].key = key THEN [key |-> key, col |-> col] ELSE coll[i]]
    ELSE Append(coll, [key |-> key, col |-> col])

RECURSIVE MakeProxies(_, _, _)
MakeProxies(cols, labels, coll) ==
    IF cols = <<>> THEN coll
    ELSE LET c == Head(cols)
             key == IF labels THEN <<c.t, c.k>> ELSE <<0, c.k>>
         IN MakeProxies(Tail(cols), labels, SetItem(coll, key, c))

\* Select._populate_column_collection over _columns_plus_names
Select_populate_column_collection(o) ==
    MakeProxies(OrderedSet(SelectIterables(o.raw_columns)), o.use_labels, <<>>)

\* FromClause.columns of a Select: populate once, then the memoized value
columns(o) ==
    IF o.populated THEN o
    ELSE [o EXCEPT !.populated = TRUE,
                   !.columns = Select_populate_column_collection(o),
                   !.memo = {"columns", "primary_key", "foreign_keys"},
                   !.npopulate = @ + 1]

(***************************************************************************)
(* The in-place methods of Select.  Each yields the object after the call  *)
(* and the error it raised ("" when it returned).  BadFrom, BadCol and     *)
(* BadInt are arguments the coercion functions reject.                     *)
(***************************************************************************)
BadFrom == -1
BadCol == Col(0, "bad")
BadInt == -2
NoneFrom == 0
NoneClause == Col(0, "None")

Ok(o) == [o |-> o, err |-> ""]
Raise(o, e) == [o |-> o, err |-> e]

\* faulty variant: the memoized collections are kept
append_column_keeps_exported(o, column) ==
    IF column = BadCol THEN Raise(o, "ArgumentError")
    ELSE Ok([o EXCEPT !.raw_columns = o.raw_columns \o <<column>>])

append_column(o, column) ==
    LET o1 == _reset_exported(o)
    IN IF column = BadCol THEN Raise(o1, "ArgumentError")
       ELSE Ok([o1 EXCEPT !.raw_columns = o1.raw_columns \o <<column>>])

append_whereclause(o, whereclause) ==
    LET o1 == _reset_exported(o)
    IN IF whereclause = BadCol THEN Raise(o1, "ArgumentError")
       ELSE Ok([o1 EXCEPT !.whereclause = o1.whereclause \o <<whereclause>>])

append_having(o, having) ==
    IF having = BadCol THEN Raise(o, "ArgumentError")
    ELSE Ok([o EXCEPT !.having = o.having \o <<having>>])

append_from(o, fromclause) ==
    LET o1 == _reset_exported(o)
    IN IF fromclause = BadFrom THEN Raise(o1, "ArgumentError")
       ELSE Ok([o1 EXCEPT !.from_obj = OrderedSet(o1.from_obj \o <<fromclause>>)])

append_order_by(o, clauses) ==
    IF clauses = <<NoneClause>> THEN Ok([o EXCEPT !.order_by = <<>>])
    ELSE Ok([o EXCEPT !.order_by = o.order_by \o clauses])

append_group_by(o, clauses) ==
    IF clauses = <<NoneClause>> THEN Ok([o EXCEPT !.group_by = <<>>])
    ELSE Ok([o EXCEPT !.group_by = o.group_by \o clauses])

(***************************************************************************)
(* The bodies of the generative methods, run on the copy _generate made.   *)
(***************************************************************************)
apply_labels_body(o) == Ok([o EXCEPT !.use_labels = TRUE])

limit_body(o, limit) ==
    IF limit = BadInt THEN Raise(o, "ValueError")
    ELSE Ok([o EXCEPT !.limit = limit])

offset_body(o, offset) ==
    IF offset = BadInt THEN Raise(o, "ValueError")
    ELSE Ok([o EXCEPT !.offset = offset])

distinct_body(o, expr) ==
    IF expr # <<>>
    THEN IF BadCol \in Range(expr) THEN Raise(o, "ArgumentError")
         ELSE IF o.distinct.exprs # <<>>
              THEN Ok([o EXCEPT !.distinct.exprs = o.distinct.exprs \o expr])
              ELSE Ok([o EXCEPT !.distinct = [on |-> TRUE, exprs |-> expr]])
    ELSE Ok([o EXCEPT !.distinct = [on |-> TRUE, exprs |-> <<>>]])

\* correlate(*fromclauses): fromclauses is <<NoneFrom>> for correlate(None)
correlate_body(o, fromclauses) ==
    LET o1 == [o EXCEPT !.auto_correlate = FALSE]
    IN IF fromclauses # <<>> /\ fromclauses[1] = NoneFrom
       THEN Ok([o1 EXCEPT !.correlate = {}])
       ELSE IF BadFrom \in Range(fromclauses) THEN Raise(o1, "ArgumentError")
       ELSE Ok([o1 EXCEPT !.correlate = o1.correlate \cup Range(fromclauses)])

correlate_except_body(o, fromclauses) ==
    LET o1 == [o EXCEPT !.auto_correlate = FALSE]
    IN IF fromclauses # <<>> /\ fromclauses[1] = NoneFrom
       THEN Ok([o1 EXCEPT !.correlate_except = [isset |-> TRUE, items |-> {}]])
       ELSE IF BadFrom \in Range(fromclauses) THEN Raise(o1, "ArgumentError")
       ELSE Ok([o1 EXCEPT !.correlate_except =
                   [isset |-> TRUE,
                    items |-> o1.correlate_except.items \cup Range(fromclauses)]])

\* faulty variant: the given columns are added to the existing ones
with_only_columns_body_appends(o, cols) ==
    LET o1 == _reset_exported(o)
    IN IF BadCol \in Range(cols) THEN Raise(o1, "ArgumentError")
       ELSE Ok([o1 EXCEPT !.raw_columns = o.raw_columns \o cols])

with_only_columns_body(o, cols) ==
    LET o1 == _reset_exported(o)
    IN IF BadCol \in Range(cols) THEN Raise(o1, "ArgumentError")
       ELSE Ok([o1 EXCEPT !.raw_columns = cols])

\* a _generate that copies the instance dictionary with its memoized
\* collections still in it
_generate_keeps_exported(o) == o

\* SelectBase._generate: a copy of the instance dictionary, memoized
\* collections dropped from the copy
_generate(o) == _reset_exported(o)

(***************************************************************************)
(* Cloning: ClauseElement._clone, then the copy's _copy_internals with its *)
(* default clone function.                                                 *)
(***************************************************************************)
\* element._clone(): a shallow copy that remembers what it is a copy of;
\* a TableClause is Immutable and returns itself.  The populate hook has
\* not run on the new instance, whatever its dictionary was copied with.
_clone(h, x) ==
    IF h[x].kind = "table" THEN [h |-> h, id |-> x]
    ELSE [h |-> Append(h, [h[x] EXCEPT !.clone_of = x, !.npopulate = 0]),
          id |-> Len(h) + 1]

\* [clone(f) for f in xs], threading the heap
RECURSIVE CloneAll(_, _)
CloneAll(h, xs) ==
    IF xs = <<>> THEN [h |-> h, ids |-> <<>>]
    ELSE LET r1 == _clone(h, Head(xs))
             r2 == CloneAll(r1.h, Tail(xs))
         IN [h |-> r2.h, ids |-> <<r1.id>> \o r2.ids]

Join_copy_internals(h, n) ==
    LET r == CloneAll(h, <<h[n].left, h[n].right>>)
    IN [r.h EXCEPT ![n] = [_reset_exported(h[n]) EXCEPT
                              !.left = r.ids[1], !.right = r.ids[2]]]

Alias_copy_internals(h, n) ==
    IF h[h[n].element].kind = "table" THEN h
    ELSE LET r == _clone(h, h[n].element)
         IN [r.h EXCEPT ![n] = [_reset_exported(h[n]) EXCEPT !.element = r.id]]

FromGrouping_copy_internals(h, n) ==
    LET r == _clone(h, h[n].element)
    IN [r.h EXCEPT ![n].element = r.id]

CompoundSelect_copy_internals(h, n) ==
    LET r == CloneAll(h, h[n].selects)
    IN [r.h EXCEPT ![n] = [_reset_exported(h[n]) EXCEPT !.selects = r.ids]]

Select_copy_internals(h, n) ==
    LET o    == h[n]
        keys == OrderedSet(o.from_obj \o _froms(h, n))
        r1   == CloneAll(h, keys)
        from_cloned == {<<keys[i], r1.ids[i]>> : i \in 1..Len(keys)}
        r2   == CloneAll(r1.h, Ascending(o.correlate))
        ents == SelectSeq(o.raw_columns, LAMBDA c : c.k = "*")
        r3   == CloneAll(r2.h, [i \in 1..Len(ents) |-> ents[i].t])
        nth(i) == Cardinality({j \in 1..i : o.raw_columns[j].k = "*"})
    IN [r3.h EXCEPT ![n] = [_reset_exported(o) EXCEPT
          !.from_cloned = from_cloned,
          !.from_obj = [i \in 1..Len(o.from_obj) |->
                           Translate(from_cloned, o.from_obj[i])],
          !.correlate = Range(r2.ids) \cup o.correlate,
          !.raw_columns = [i \in 1..Len(o.raw_columns) |->
                             IF o.raw_columns[i].k = "*"
                             THEN Col(r3.ids[nth(i)], "*")
                             ELSE o.raw_columns[i]]]]

_copy_internals(h, n) ==
    CASE h[n].kind = "join" -> Join_copy_internals(h, n)
      [] h[n].kind = "alias" -> Alias_copy_internals(h, n)
      [] h[n].kind = "grouping" -> FromGrouping_copy_internals(h, n)
      [] h[n].kind = "compound" -> CompoundSelect_copy_internals(h, n)
      [] h[n].kind = "select" -> Select_copy_internals(h, n)
      [] OTHER -> h

\* the copy of x a cloning traversal hands back
CloneOf(h, x) ==
    LET r == _clone(h, x)
    IN [h |-> IF r.id = x THEN h ELSE _copy_internals(r.h, r.id), id |-> r.id]

(***************************************************************************)
(* Constructors.                                                           *)
(***************************************************************************)
Alias(element) == [Blank("alias") EXCEPT !.element = element]

Join(left, right, onclause, isouter) ==
    [Blank("join") EXCEPT !.left = left, !.right = right,
                          !.onclause = onclause, !.isouter = isouter]

FromGrouping(element) == [Blank("grouping") EXCEPT !.element = element]

\* select(columns, whereclause, from_obj): auto-correlation is on
Select(cols, whereclause, from_obj) ==
    [Blank("select") EXCEPT !.raw_columns = cols,
                            !.whereclause = whereclause,
                            !.from_obj = OrderedSet(from_obj),
                            !.auto_correlate = TRUE]

\* CompoundSelect(keyword, *selects)
CompoundSelect(selects) == [Blank("compound") EXCEPT !.selects = selects]

(***************************************************************************)
(* The initial objects.                                                    *)
(***************************************************************************)
InitColumns ==
    { <<Col(T1, "a"), Col(T2, "b")>>,
      <<Col(A1, "a"), Col(T2, "b")>>,
      <<Col(T3, "*")>> }

InitWhere == { <<>> }

InitFromObj == { <<>>, <<J1>>, <<J2>> }

NoOp == [op |-> "init", arg |-> <<>>, recv |-> 0, res |-> 0, err |-> ""]

Init ==
    /\ \E cols \in InitColumns, w \in InitWhere, fo \in InitFromObj :
         objs = << TableClause("t1"), TableClause("t2"), TableClause("t3"),
                   Alias(T1),
                   Join(T1, T2, <<Col(T1, "a"), Col(T2, "a")>>, FALSE),
                   FromGrouping(J1),
                   Join(A1, G1, <<Col(A1, "a"), Col(T1, "a")>>, FALSE),
                   columns(Select(<<Col(T1, "a")>>, <<>>, <<>>)),
                   columns(Select(<<Col(T2, "a")>>, <<>>, <<>>)),
                   CompoundSelect(<<SA, SB>>),
                   [Alias(T1) EXCEPT !.clone_of = A1],
                   Select(cols, w, fo) >>
    /\ cur = S0
    /\ lastOp = NoOp
    /\ ngen = 0
    /\ nclone = 0

(***************************************************************************)
(* The @_generative decorator: s = self._generate(); fn(s, ...); return s. *)
(* When fn raises, the copy is dropped and the caller keeps the receiver.  *)
(***************************************************************************)
\* the decorated method fn, by name, applied to the copy
fn(op, o, arg) ==
    CASE op = "where" -> append_whereclause(o, arg)
      [] op = "having" -> append_having(o, arg)
      [] op = "order_by" -> append_order_by(o, arg)
      [] op = "group_by" -> append_group_by(o, arg)
      [] op = "limit" -> limit_body(o, arg)
      [] op = "offset" -> offset_body(o, arg)
      [] op = "distinct" -> distinct_body(o, arg)
      [] op = "select_from" -> append_from(o, arg)
      [] op = "correlate" -> correlate_body(o, arg)
      [] op = "correlate_except" -> correlate_except_body(o, arg)
      [] op = "with_only_columns" -> with_only_columns_body(o, arg)
      [] op = "column" -> append_column(o, arg)
      [] op = "apply_labels" -> apply_labels_body(o)

_generative(h, s, op, arg) ==
    LET n  == Len(h) + 1
        h1 == Append(h, _generate(h[s]))
        r  == fn(op, h1[n], arg)
    IN [h |-> [h1 EXCEPT ![n] = r.o], res |-> n, err |-> r.err]

Generative(op, arg) ==
    /\ ngen < MaxGen
    /\ LET r == _generative(objs, cur, op, arg)
       IN IF r.err = ""
          THEN /\ objs' = r.h
               /\ cur' = r.res
               /\ lastOp' = [op |-> op, arg |-> arg, recv |-> cur,
                            res |-> r.res, err |-> ""]
          ELSE /\ objs' = SubSeq(r.h, 1, Len(objs))
               /\ cur' = cur
               /\ lastOp' = [op |-> op, arg |-> arg, recv |-> cur,
                            res |-> 0, err |-> r.err]
    /\ ngen' = ngen + 1
    /\ UNCHANGED nclone

(***************************************************************************)
(* Arguments the caller passes.                                            *)
(***************************************************************************)
WhereArgs == {Col(T2, "a"), BadCol}
HavingArgs == {Col(T1, "a")}
OrderByArgs == {<<Col(T1, "a")>>, <<NoneClause>>}
GroupByArgs == {<<Col(T1, "a")>>}
LimitArgs == {1, BadInt}
OffsetArgs == {1}
DistinctArgs == {<<>>, <<Col(T1, "a")>>}
SelectFromArgs == {J1, A1C, BadFrom}
CorrelateArgs == {<<NoneFrom>>, <<T1>>, <<T2>>, <<A1>>}
CorrelateExceptArgs == {<<NoneFrom>>, <<T1>>, <<T2>>}
WithOnlyColumnsArgs ==
    {<<Col(T2, "b")>>, <<Col(A1, "a")>>, <<BadCol>>}
ColumnArgs == {Col(T3, "a")}

(***************************************************************************)
(* The generative methods.                                                 *)
(***************************************************************************)
Where == \E w \in WhereArgs : Generative("where", w)

Having == \E c \in HavingArgs : Generative("having", c)

OrderBy == \E cl \in OrderByArgs : Generative("order_by", cl)

GroupBy == \E cl \in GroupByArgs : Generative("group_by", cl)

Limit == \E v \in LimitArgs : Generative("limit", v)

Offset == \E v \in OffsetArgs : Generative("offset", v)

Distinct == \E e \in DistinctArgs : Generative("distinct", e)

SelectFrom == \E f \in SelectFromArgs : Generative("select_from", f)

Correlate == \E fs \in CorrelateArgs : Generative("correlate", fs)

CorrelateExcept == \E fs \in CorrelateExceptArgs : Generative("correlate_except", fs)

WithOnlyColumns == \E cols \in WithOnlyColumnsArgs : Generative("with_only_columns", cols)

Column == \E c \in ColumnArgs : Generative("column", c)

ApplyLabels ==
    Generative("apply_labels", <<>>)

GenerativeOps ==
    {"where", "having", "order_by", "group_by", "limit", "offset", "distinct",
     "select_from", "correlate", "correlate_except", "with_only_columns",
     "column", "apply_labels"}

(***************************************************************************)
(* Reading the memoized columns of the caller's Select.                    *)
(***************************************************************************)
ReadColumns ==
    /\ ~objs[cur].populated
    /\ objs' = [objs EXCEPT ![cur] = columns(objs[cur])]
    /\ lastOp' = [op |-> "columns", arg |-> <<>>, recv |-> cur,
                  res |-> cur, err |-> ""]
    /\ UNCHANGED <<cur, ngen, nclone>>

(***************************************************************************)
(* Cloning one of the objects.                                             *)
(***************************************************************************)
\* a cloning traversal over the caller's Select
CloneSelect ==
    /\ nclone < MaxClone
    /\ LET r == CloneOf(objs, cur)
       IN /\ objs' = r.h
          /\ cur' = r.id
          /\ lastOp' = [op |-> "clone", arg |-> <<>>, recv |-> cur,
                        res |-> r.id, err |-> ""]
    /\ nclone' = nclone + 1
    /\ UNCHANGED ngen

\* a cloning traversal over one of the other FROM objects
Clonable == {T1, T2, A1, J1, G1, J2, U1, SA, SB, A1C}

CloneFrom ==
    /\ nclone < MaxClone
    /\ \E x \in Clonable :
         LET r == CloneOf(objs, x)
         IN /\ objs' = r.h
            /\ lastOp' = [op |-> "clone", arg |-> <<>>, recv |-> x,
                          res |-> r.id, err |-> ""]
    /\ nclone' = nclone + 1
    /\ UNCHANGED <<cur, ngen>>

(***************************************************************************)
(* Specifications.                                                         *)
(* Spec: the calls that decide the FROM list of the caller's Select.       *)
(***************************************************************************)
Next ==
    \/ Where \/ SelectFrom \/ Correlate \/ CorrelateExcept
    \/ WithOnlyColumns \/ Column
    \/ CloneSelect

Spec == Init /\ [][Next]_vars

\* SpecGenerative: every generative method, and reads of the memoized
\* columns, starting from select([T1.c.a, T2.c.b]).select_from(J1)
InitGenerative ==
    /\ Init
    /\ objs[S0].raw_columns = <<Col(T1, "a"), Col(T2, "b")>>
    /\ objs[S0].whereclause = <<>>
    /\ objs[S0].from_obj = <<J1>>

NextGenerative ==
    \/ Where \/ Having \/ OrderBy \/ GroupBy \/ Limit \/ Offset \/ Distinct
    \/ SelectFrom \/ Correlate \/ CorrelateExcept \/ WithOnlyColumns
    \/ Column \/ ApplyLabels
    \/ ReadColumns

SpecGenerative == InitGenerative /\ [][NextGenerative]_vars

\* SpecFroms: the calls that decide which FROM objects the caller's Select
\* collects, correlation left at its default
NextFroms ==
    \/ Where \/ SelectFrom \/ WithOnlyColumns \/ Column
    \/ CloneSelect

SpecFroms == Init /\ [][NextFroms]_vars

\* SpecClone: cloning traversals over every class of FROM object
NextClone == CloneSelect \/ CloneFrom

SpecClone == Init /\ [][NextClone]_vars

(***************************************************************************)
(* Claims.                                                                 *)
(***************************************************************************)
\* the objects that are copies made by _clone
Clones == {n \in 1..Len(objs) : objs[n].clone_of # 0}

\* C1 as stated: every clone F' of a FromClause F of any class is derived
\* from F: F'.is_derived_from(F).
C1_CloneDerivedFromOriginal_AnyClass ==
    \A n \in Clones : is_derived_from(objs, n, objs[n].clone_of)

\* C1 amended: for the classes whose is_derived_from consults the
\* cloned-identity set of the receiver (the base FromClause / table, and
\* Alias), every clone F' of F is derived from F; a table's clone is the
\* table itself.
C1_CloneDerivedFromOriginal ==
    /\ \A n \in Clones :
         objs[n].kind \in {"table", "alias"}
            => is_derived_from(objs, n, objs[n].clone_of)
    /\ \A t \in 1..Len(objs) :
         objs[t].kind = "table"
            => /\ CloneOf(objs, t).id = t
               /\ is_derived_from(objs, t, t)

\* C1 witness: an Alias has been cloned and the clone is derived from it
C1_Witness ==
    /\ lastOp.op = "clone"
    /\ lastOp.res \in Clones
    /\ objs[lastOp.res].kind = "alias"
    /\ objs[lastOp.res].clone_of = lastOp.recv
    /\ is_derived_from(objs, lastOp.res, lastOp.recv)

\* C2 as stated: the original F of any class is derived from each of its
\* clones F': F.is_derived_from(F').
C2_OriginalDerivedFromClone_AnyClass ==
    \A n \in Clones : is_derived_from(objs, objs[n].clone_of, n)

\* C2 amended: for Select, whose is_derived_from looks the receiver up in
\* the argument's cloned-identity set, the original is derived from each of
\* its clones; and for a table, whose clone is the table itself.
C2_OriginalDerivedFromClone ==
    /\ \A n \in Clones :
         objs[n].kind = "select"
            => is_derived_from(objs, objs[n].clone_of, n)
    /\ \A t \in 1..Len(objs) :
         objs[t].kind = "table"
            => is_derived_from(objs, t, CloneOf(objs, t).id)

\* C2 witness: a Select has been cloned and is derived from its clone
C2_Witness ==
    /\ lastOp.op = "clone"
    /\ lastOp.res \in Clones
    /\ objs[lastOp.res].kind = "select"
    /\ objs[lastOp.res].clone_of = lastOp.recv
    /\ is_derived_from(objs, lastOp.recv, lastOp.res)

\* C3: every generative method of Select leaves the receiver (and every
\* other existing object) unchanged, whether the call returns or raises;
\* a call that returns hands back a new object, distinct from the receiver,
\* whose column cache is cleared; a call that raises leaves no copy behind.
C3_GenerativeLeavesReceiverUnchanged ==
    [][lastOp'.op \in GenerativeOps /\ lastOp' # lastOp =>
          /\ lastOp'.recv = cur
          /\ \A i \in 1..Len(objs) : objs'[i] = objs[i]
          /\ lastOp'.err = "" =>
                /\ Len(objs') = Len(objs) + 1
                /\ lastOp'.res = Len(objs')
                /\ lastOp'.res # lastOp'.recv
                /\ cur' = lastOp'.res
                /\ ~objs'[lastOp'.res].populated
                /\ objs'[lastOp'.res].columns = <<>>
          /\ lastOp'.err # "" => objs' = objs /\ cur' = cur]_vars

\* C3 witness: a generative call returned a copy with a cleared column
\* cache although the receiver's columns had been read, and the copy
\* differs from the receiver in more than the cache
C3_Witness ==
    /\ lastOp.op \in GenerativeOps
    /\ lastOp.err = ""
    /\ objs[lastOp.recv].populated
    /\ objs[lastOp.recv].columns # <<>>
    /\ ~objs[lastOp.res].populated
    /\ objs[lastOp.res] # _reset_exported(objs[lastOp.recv])

\* the FROM sets an enclosing Select may hand to _get_display_froms
Enclosing == SUBSET {T1, T2, A1C}

\* no enclosing Select, or one with every table in its FROM list
NoneOrAll == {{}, {T1, T2, A1C}}

\* a Select on which neither correlate() nor correlate_except() was called
DefaultCorrelation(o) ==
    o.auto_correlate /\ o.correlate = {} /\ ~o.correlate_except.isset

\* f is in the set S, itself or through a shared clone identity
Enclosed(f, S) == \E g \in S : _is_lexical_equivalent(objs, f, g)

\* C4 as stated: a Select with default auto-correlation whose FROM sources
\* include table T, displayed with an implicit enclosing set containing T,
\* returns a list without T.
C4_EnclosedTableOmitted_Always ==
    \A impl \in Enclosing : \A t \in {T1, T2} :
        (/\ DefaultCorrelation(objs[cur])
         /\ t \in Range(_froms(objs, cur))
         /\ t \in impl)
        => LET r == _get_display_froms(objs, cur, {}, impl)
           IN r.err = "" => t \notin Range(r.froms)

\* C4 amended: under the same conditions T is left out of the returned
\* list when more than one source is left after join hiding (the call may
\* raise instead of returning); a Select left with at most one source is
\* not auto-correlated and returns that source, T included.
C4_EnclosedTableOmitted ==
    DefaultCorrelation(objs[cur]) =>
      \A impl \in Enclosing :
        LET shown == DisplayHide(objs, cur)
            r     == _get_display_froms(objs, cur, {}, impl)
        IN \A t \in {T1, T2} :
              (t \in Range(_froms(objs, cur)) /\ t \in impl)
              => /\ Len(shown) > 1 => (r.err = "" => t \notin Range(r.froms))
                 /\ Len(shown) <= 1 => r.err = "" /\ r.froms = shown

\* C4 witness: an enclosed table is dropped and another source is returned
C4_Witness ==
    \E impl \in Enclosing : \E t \in {T1, T2} :
        /\ DefaultCorrelation(objs[cur])
        /\ t \in Range(DisplayHide(objs, cur))
        /\ t \in impl
        /\ LET r == _get_display_froms(objs, cur, {}, impl)
           IN r.err = "" /\ r.froms # <<>> /\ t \notin Range(r.froms)

\* the list _get_display_froms holds when it reaches the auto-correlation
\* test
BeforeAuto(expl) ==
    DisplayCorrelateExcept(objs, cur,
        DisplayCorrelate(objs, cur, DisplayHide(objs, cur), expl), expl)

\* C5: when auto-correlation is applied and every remaining source is also
\* in the implicit enclosing set, _get_display_froms raises
\* InvalidRequestError; it never returns an empty list out of
\* auto-correlation.
C5_AutoCorrelationToEmptyRaises ==
    objs[cur].auto_correlate =>
      \A impl \in Enclosing :
        LET f3 == BeforeAuto({})
            r  == _get_display_froms(objs, cur, {}, impl)
        IN AutoCorrelates(objs, cur, f3, impl)
           => /\ (\A f \in Range(f3) : Enclosed(f, impl))
                    => r.err = "InvalidRequestError"
              /\ r.err = "" => r.froms # <<>>

\* C5 witness: two sources remain, both enclosed, and the call raises
C5_Witness ==
    \E impl \in Enclosing :
        LET f3 == BeforeAuto({})
        IN /\ AutoCorrelates(objs, cur, f3, impl)
           /\ Len(f3) > 1
           /\ \A f \in Range(f3) : Enclosed(f, impl)
           /\ _get_display_froms(objs, cur, {}, impl).err
                 = "InvalidRequestError"

\* C6 as stated: a source listed in correlate_except is never removed by
\* correlation: for every explicit and implicit enclosing set, every
\* source left after join hiding that is in correlate_except is in the
\* returned list.
C6_CorrelateExceptNeverRemoved ==
    \A expl \in Enclosing : \A impl \in Enclosing :
        \A f \in Range(DisplayHide(objs, cur)) :
            (objs[cur].correlate_except.isset
                /\ f \in objs[cur].correlate_except.items)
            => LET r == _get_display_froms(objs, cur, expl, impl)
               IN r.err = "" /\ f \in Range(r.froms)

\* C7 as stated: right after correlate(None), whatever calls preceded it,
\* _get_display_froms returns every collected source not hidden by a join,
\* for every explicit and implicit enclosing set.
C7_CorrelateNoneShowsAll ==
    (lastOp.op = "correlate" /\ lastOp.err = "" /\ lastOp.arg = <<NoneFrom>>)
    => \A expl \in Enclosing : \A impl \in Enclosing :
          LET r == _get_display_froms(objs, cur, expl, impl)
          IN r.err = "" /\ r.froms = DisplayHide(objs, cur)

\* the FROM objects a Select with raw columns cols, and the WHERE clause
\* and explicit FROM list of o, is built from: columns, then WHERE, then
\* explicit FROMs; each stands for the copy o recorded for it, if any
Sources(o, cols) ==
    LET src == RawFromObjects(objs, cols)
                 \o ClauseFroms(o.whereclause) \o o.from_obj
    IN [i \in 1..Len(src) |-> Translate(o.from_cloned, src[i])]

C9_FromsOrderedFirstOccurrence ==
    LET t    == Sources(objs[cur], objs[cur].raw_columns)
        Kept == {i \in 1..Len(t) :
                   \A j \in 1..(i - 1) :
                      ~_is_lexical_equivalent(objs, t[j], t[i])}
        F    == _froms(objs, cur)
    IN /\ Len(F) = Cardinality(Kept)
       /\ \A k \in 1..Len(F) :
             \E i \in Kept : /\ F[k] = t[i]
                             /\ Cardinality({j \in Kept : j < i}) = k - 1

\* C9 witness: columns, WHERE clause and explicit FROM list all contribute,
\* and an explicit FROM is dropped because a different object with the same
\* clone identity came earlier
C9_Witness ==
    LET o == objs[cur]
        t == Sources(o, o.raw_columns)
    IN /\ lastOp.op \in GenerativeOps
       /\ o.whereclause # <<>>
       /\ o.from_obj # <<>>
       /\ \E i \in 1..Len(t) : \E j \in 1..Len(t) :
             /\ i < j
             /\ t[i] # t[j]
             /\ _is_lexical_equivalent(objs, t[i], t[j])
             /\ t[j] \in Range(o.from_obj)
             /\ t[j] \notin Range(_froms(objs, cur))

\* the collected sources that are joins
CollectedJoins ==
    {f \in Range(_froms(objs, cur)) : objs[f].kind = "join"}

\* the left and right sources of a join, seen through groupings, with the
\* copies the caller's Select recorded for them in _from_cloned when it
\* was last cloned
Sides(J) ==
    LET lr == Range(_from_objects(objs, objs[J].left))
                 \cup Range(_from_objects(objs, objs[J].right))
    IN lr \cup {p[2] : p \in {q \in objs[cur].from_cloned : q[1] \in lr}}

Nested(J) == \E K \in CollectedJoins \ {J} : J \in Sides(K)

RECURSIVE FromName(_, _)
FromName(h, x) ==
    IF h[x].clone_of # 0 THEN FromName(h, h[x].clone_of)
    ELSE (IF h[x].kind = "table" THEN "t" ELSE "anon") \o ToString(x)

\* ColumnClause._label: <table>_<column> under a named FROM object
_label(h, col) ==
    IF h[col.t].kind \in {"table", "alias"}
    THEN FromName(h, col.t) \o "_" \o col.k
    ELSE col.k

\* an entry of a ColumnCollection: the key, the column, and the columns the
\* column proxies, each with its 'weight' annotation (1 when it has none)
Entry(key, col, proxies) == [key |-> key, col |-> col, proxies |-> proxies]

Proxied(col, weight) == [col |-> col, weight |-> weight]

\* ColumnCollection: coll[e.key] = e.col, a known key keeps its position
ColumnCollection_set(coll, e) ==
    IF \E i \in 1..Len(coll) : coll[i].key = e.key
    THEN [i \in 1..Len(coll) |-> IF coll[i].key = e.key THEN e ELSE coll[i]]
    ELSE Append(coll, e)

RECURSIVE ColumnCollection_update(_, _)
ColumnCollection_update(coll, es) ==
    IF es = <<>> THEN coll
    ELSE ColumnCollection_update(ColumnCollection_set(coll, Head(es)), Tail(es))

\* col._make_proxy(selectable, name): a new column of the selectable that
\* proxies col, stored under its name
_make_proxy(x, col, name) == Entry(name, Col(x, name), <<Proxied(col, 1)>>)

\* TableClause.__init__: the columns given, each under its name
TableClause_columns(t) ==
    [i \in 1..Len(TableColumns(t)) |->
        Entry(TableColumns(t)[i].k, TableColumns(t)[i], <<>>)]

\* faulty variant: the columns are stored under their names
Join_populate_by_name(h, lcols, rcols) ==
    ColumnCollection_update(<<>>,
       [i \in 1..Len(lcols \o rcols) |->
           Entry((lcols \o rcols)[i].col.k, (lcols \o rcols)[i].col,
                 (lcols \o rcols)[i].proxies)])

\* Join._populate_column_collection: the columns of the left side, then of
\* the right side, each under its _label
Join_populate_column_collection(h, lcols, rcols) ==
    LET cols == lcols \o rcols
    IN ColumnCollection_update(<<>>,
          [i \in 1..Len(cols) |->
              Entry(_label(h, cols[i].col), cols[i].col, cols[i].proxies)])

\* faulty variant: the alias exports the columns of its element themselves
Alias_populate_reexports(x, ecols) == ecols

\* Alias._populate_column_collection: a proxy of every column of the element
Alias_populate_column_collection(x, ecols) ==
    ColumnCollection_update(<<>>,
       [i \in 1..Len(ecols) |-> _make_proxy(x, ecols[i].col, ecols[i].col.k)])

\* Select._populate_column_collection: a proxy of every column of
\* _columns_plus_names, named by its _label under use_labels
Select_proxies(h, x) ==
    LET cols == OrderedSet(SelectIterables(h[x].raw_columns))
    IN ColumnCollection_update(<<>>,
          [i \in 1..Len(cols) |->
              _make_proxy(x, cols[i],
                 IF h[x].use_labels THEN _label(h, cols[i]) ELSE cols[i].k)])

Min(S) == CHOOSE n \in S : \A m \in S : n <= m

\* faulty variant: the columns of every select carry weight 1
CompoundSelect_populate_unweighted(h, x, scols) ==
    LET n == IF scols = <<>> THEN 0
             ELSE Min({Len(scols[j]) : j \in 1..Len(scols)})
    IN ColumnCollection_update(<<>>,
          [i \in 1..n |->
              Entry(scols[1][i].col.k, Col(x, scols[1][i].col.k),
                    [j \in 1..Len(scols) |-> Proxied(scols[j][i].col, 1)])])

\* CompoundSelect._populate_column_collection: one proxy per position of
\* zip(*[s.c for s in selects]), made from the column of the first select;
\* its _proxies are the columns of that position, the one of the i-th
\* select (from 0) annotated with weight i + 1
CompoundSelect_populate_column_collection(h, x, scols) ==
    LET n == IF scols = <<>> THEN 0
             ELSE Min({Len(scols[j]) : j \in 1..Len(scols)})
    IN ColumnCollection_update(<<>>,
          [i \in 1..n |->
              LET first == scols[1][i].col
                  name == IF h[x].use_labels THEN _label(h, first)
                          ELSE first.k
              IN Entry(name, Col(x, name),
                       [j \in 1..Len(scols) |->
                           Proxied(scols[j][i].col, j)])])

\* FromClause.c: the exported columns of x: the collection x holds in
\* _columns, or else the one its populate would build
RECURSIVE ExportedColumns(_, _)
ExportedColumns(h, x) ==
    LET o == h[x]
    IN IF o.kind # "table" /\ o.populated /\ o._columns # <<>>
       THEN o._columns
       ELSE CASE o.kind = "table" ->
                   ColumnCollection_update(TableClause_columns(x), o._columns)
              [] o.kind = "alias" ->
                   Alias_populate_column_collection(
                      x, ExportedColumns(h, o.element))
              [] o.kind = "join" ->
                   Join_populate_column_collection(
                      h, ExportedColumns(h, o.left), ExportedColumns(h, o.right))
              [] o.kind = "grouping" -> ExportedColumns(h, o.element)
              [] o.kind = "select" -> Select_proxies(h, x)
              [] o.kind = "compound" ->
                   CompoundSelect_populate_column_collection(h, x,
                      [j \in 1..Len(o.selects) |->
                          ExportedColumns(h, o.selects[j])])

\* the columns of a collection
ColumnsOf(coll) == {coll[i].col : i \in 1..Len(coll)}

\* col._proxies, with the weights they are annotated with
_proxies(h, col) ==
    IF col.t \notin 1..Len(h) THEN <<>>
    ELSE LET coll == ExportedColumns(h, col.t)
         IN IF \E i \in 1..Len(coll) : coll[i].col = col
            THEN coll[CHOOSE i \in 1..Len(coll) : coll[i].col = col].proxies
            ELSE <<>>

\* ColumnElement.proxy_set, every member with the weight it carries
RECURSIVE WeightedProxySet(_, _, _)
WeightedProxySet(h, col, weight) ==
    {Proxied(col, weight)} \cup
    UNION {WeightedProxySet(h, p.col, p.weight) : p \in Range(_proxies(h, col))}

proxy_set(h, col) == {p.col : p \in WeightedProxySet(h, col, 1)}

\* _expand_cloned over columns: a column is never a copy of another
Column_expand_cloned(cols) == cols

\* ColumnElement.shares_lineage
shares_lineage(h, col, othercolumn) ==
    proxy_set(h, col) \cap proxy_set(h, othercolumn) # {}

(***************************************************************************)
(* FromClause.corresponding_column.                                        *)
(***************************************************************************)
\* the local function embedded(expanded_proxy_set, target_set)
embedded(expanded_proxy_set, target_set) ==
    \A t \in target_set \ expanded_proxy_set :
        Column_expand_cloned({t}) \cap expanded_proxy_set # {}

RECURSIVE SumWeights(_)
SumWeights(S) ==
    IF S = {} THEN 0
    ELSE LET p == CHOOSE q \in S : TRUE
         IN p.weight + SumWeights(S \ {p})

\* faulty variant: every member counts 1, whatever its annotation
distance_unweighted(h, col, column) ==
    Cardinality({p \in WeightedProxySet(h, col, 1) :
                    shares_lineage(h, p.col, column)})

\* reduce(operator.add, [sc._annotations.get('weight', 1)
\*                       for sc in col.proxy_set if sc.shares_lineage(column)])
distance(h, col, column) ==
    SumWeights({p \in WeightedProxySet(h, col, 1) :
                   shares_lineage(h, p.col, column)})

\* no column: what corresponding_column returns for None
NoColumn == Col(0, "None")

\* faulty variant: the first column that intersects is kept
better_never(h, col, intersect, cand, i, column) == FALSE

\* whether the loop body replaces the pick (col, intersect) by (cand, i)
better(h, col, intersect, cand, i, column) ==
    \/ Cardinality(i) > Cardinality(intersect)
    \/ /\ i = intersect
       /\ distance(h, cand, column) < distance(h, col, column)

\* faulty variant: require_embedded is not looked at
qualifies_any(h, cand, target_set, require_embedded) ==
    target_set \cap Column_expand_cloned(proxy_set(h, cand)) # {}

\* the test `if i and (not require_embedded or embedded(...))`
qualifies(h, cand, target_set, require_embedded) ==
    LET expanded_proxy_set == Column_expand_cloned(proxy_set(h, cand))
    IN /\ target_set \cap expanded_proxy_set # {}
       /\ ~require_embedded \/ embedded(expanded_proxy_set, target_set)

\* the loop `for c in cols` from the pick (col, intersect) made so far
RECURSIVE scan(_, _, _, _, _, _)
scan(h, cols, column, require_embedded, col, intersect) ==
    IF cols = <<>> THEN col
    ELSE LET cand == Head(cols).col
             target_set == proxy_set(h, column)
             i == target_set \cap Column_expand_cloned(proxy_set(h, cand))
             take == /\ qualifies(h, cand, target_set, require_embedded)
                     /\ \/ col = NoColumn
                        \/ better(h, col, intersect, cand, i, column)
         IN scan(h, Tail(cols), column, require_embedded,
                 IF take THEN cand ELSE col,
                 IF take THEN i ELSE intersect)

corresponding_column(h, x, column, require_embedded) ==
    LET cols == ExportedColumns(h, x)
    IN IF column \in ColumnsOf(cols) THEN column
       ELSE scan(h, cols, column, require_embedded, NoColumn, {})

(***************************************************************************)
(* Primary keys.  Column a of every table is its primary key; a proxy of a *)
(* primary key column is a primary key column of its selectable.           *)
(***************************************************************************)
TablePrimaryKey(t) == <<Col(t, "a")>>

\* the primary key columns among the columns of a collection: a column is
\* one when it, or the first column it proxies, is
RECURSIVE IsPrimaryKey(_, _)
IsPrimaryKey(h, col) ==
    IF col.t \notin 1..Len(h) THEN FALSE
    ELSE IF h[col.t].kind = "table" THEN col \in Range(TablePrimaryKey(col.t))
    ELSE LET ps == _proxies(h, col)
         IN ps # <<>> /\ IsPrimaryKey(h, ps[1].col)

\* sqlutil.reduce_columns(columns, onclause): of two columns the onclause
\* equates, the later one that shares lineage with the right operand is
\* left out
reduce_columns(h, cols, onclause) ==
    LET all == UNION {proxy_set(h, cols[i]) : i \in 1..Len(cols)}
        hit == {i \in 1..Len(cols) : shares_lineage(h, cols[i], onclause[2])}
    IN IF Len(onclause) = 2 /\ onclause[1] \in all /\ onclause[2] \in all
          /\ onclause[1] # onclause[2] /\ hit # {}
       THEN LET last == CHOOSE i \in hit : \A j \in hit : j <= i
            IN [i \in 1..(Len(cols) - 1) |->
                   IF i < last THEN cols[i] ELSE cols[i + 1]]
       ELSE cols

\* FromClause.primary_key of x, as a populate would build it; the one of a
\* FromGrouping is its element's
RECURSIVE primary_key(_, _)
primary_key(h, x) ==
    LET pks == SelectSeq(ExportedColumns(h, x),
                         LAMBDA e : IsPrimaryKey(h, e.col))
        cols == [i \in 1..Len(pks) |-> pks[i].col]
    IN CASE h[x].kind = "join" ->
              LET lr == ExportedColumns(h, h[x].left)
                           \o ExportedColumns(h, h[x].right)
                  lrpk == SelectSeq(lr, LAMBDA e : IsPrimaryKey(h, e.col))
              IN reduce_columns(h, [i \in 1..Len(lrpk) |-> lrpk[i].col],
                                h[x].onclause)
         [] h[x].kind = "grouping" -> primary_key(h, h[x].element)
         [] OTHER -> cols

\* Join(left, right, onclause, isouter): the right side is put through
\* self_group(), which wraps a Join in a FromGrouping
Join_init(h, left, right, onclause, isouter) ==
    LET grouped == h[right].kind = "join"
        h1 == IF grouped THEN Append(h, FromGrouping(right)) ELSE h
        r == IF grouped THEN Len(h1) ELSE right
    IN [h |-> Append(h1, Join(left, r, onclause, isouter)), id |-> Len(h1) + 1]

(***************************************************************************)
(* Reads of the memoized collections.  `populated` says that _columns is   *)
(* in the instance dictionary, `memo` which of columns, primary_key and    *)
(* foreign_keys are; npopulate counts the runs of the populate hook since  *)
(* the collections were last dropped.                                      *)
(***************************************************************************)
Collections == {"columns", "primary_key", "foreign_keys"}

\* the three assertions of _init_collections
_init_collections_asserts(o) ==
    ~(o.populated \/ "primary_key" \in o.memo \/ "foreign_keys" \in o.memo)

\* the three assignments of _init_collections: new, empty collections
_init_collections_assigns(o) ==
    [o EXCEPT !.populated = TRUE, !._columns = <<>>, !.foreign_keys = {},
              !.memo = @ \cup {"primary_key", "foreign_keys"}]

\* FromClause._init_collections: none of the three may be there yet
_init_collections(o) ==
    IF ~_init_collections_asserts(o) THEN Raise(o, "AssertionError")
    ELSE Ok(_init_collections_assigns(o))

\* the objects whose columns the populate hook of x reads
PopulateReads(o) ==
    CASE o.kind = "alias" -> <<o.element>>
      [] o.kind = "join" -> <<o.left, o.right>>
      [] o.kind = "compound" -> o.selects
      [] OTHER -> <<>>

\* faulty variant: the columns property runs the hook on every first read
columns_always_populates(o, attr) == TRUE

\* whether the body of a memoized property runs _init_collections and the
\* populate hook: columns does when _columns is not there, primary_key and
\* foreign_keys always do
populates(o, attr) == attr # "columns" \/ ~o.populated

\* x.<attr> for attr in Collections: the heap after the read and the error
\* raised.  A FromGrouping hands the read to its element; an attribute
\* found in the instance dictionary is returned as it is, and a TableClause
\* holds its collections from __init__ on.
RECURSIVE read(_, _, _)
RECURSIVE ReadAll(_, _)
ReadAll(h, xs) ==
    IF xs = <<>> THEN [h |-> h, err |-> ""]
    ELSE LET r == read(h, Head(xs), "columns")
         IN IF r.err # "" THEN r ELSE ReadAll(r.h, Tail(xs))

\* col.foreign_keys: a ColumnClause has none
Column_foreign_keys(col) == {}

\* Join._populate_column_collection: the foreign keys of the columns
Join_foreign_keys(coll) ==
    UNION {Column_foreign_keys(coll[i].col) : i \in 1..Len(coll)}

\* the object x once its populate hook has built the collection coll
Populated(o, coll) ==
    [o EXCEPT !._columns = coll,
              !.foreign_keys = IF o.kind = "join"
                               THEN @ \cup Join_foreign_keys(coll) ELSE @,
              !.columns = IF o.kind = "select"
                          THEN Select_populate_column_collection(o) ELSE @,
              !.npopulate = @ + 1]

\* the populate hook of x, the columns of the objects it reads being read
PopulateAfterReads(x, r) ==
    IF r.err # "" THEN r
    ELSE [h |-> [r.h EXCEPT
                   ![x] = Populated(@, ExportedColumns(
                                          [r.h EXCEPT ![x].populated = FALSE], x))],
          err |-> ""]

\* _populate_column_collection of x, after _init_collections
_populate_column_collection(h, x) ==
    PopulateAfterReads(x, ReadAll(h, PopulateReads(h[x])))

read(h, x, attr) ==
    LET o == h[x]
    IN CASE o.kind = "grouping" -> read(h, o.element, attr)
         [] o.kind = "table" -> [h |-> h, err |-> ""]
         [] OTHER ->
              IF attr \in o.memo THEN [h |-> h, err |-> ""]
              ELSE IF ~populates(o, attr)
              THEN [h |-> [h EXCEPT ![x].memo = @ \cup {attr}], err |-> ""]
              ELSE LET i == _init_collections(o)
                   IN IF i.err # "" THEN [h |-> h, err |-> i.err]
                      ELSE LET r == _populate_column_collection(
                                       [h EXCEPT ![x] = i.o], x)
                           IN IF r.err # "" THEN [h |-> h, err |-> r.err]
                              ELSE [h |-> [r.h EXCEPT
                                             ![x].memo = @ \cup {attr}],
                                    err |-> ""]

(***************************************************************************)
(* CompoundSelect.__init__.                                                *)
(***************************************************************************)
\* the loop over the selects from the n-th on; numcols is <<>> for None.
\* len(s.c) reads, and so populates, the columns of s.
RECURSIVE CompoundSelect_loop(_, _, _, _)
CompoundSelect_loop(h, selects, n, numcols) ==
    IF n > Len(selects) THEN [h |-> h, err |-> "", msg |-> <<>>]
    ELSE LET r == read(h, selects[n], "columns")
             count == Len(ExportedColumns(r.h, selects[n]))
         IN IF numcols = <<>> \/ numcols[1] = 0
            THEN CompoundSelect_loop(r.h, selects, n + 1, <<count>>)
            ELSE IF count # numcols[1]
            THEN [h |-> r.h, err |-> "ArgumentError",
                  msg |-> <<1, Len(ExportedColumns(r.h, selects[1])), n, count>>]
            ELSE CompoundSelect_loop(r.h, selects, n + 1, numcols)

\* CompoundSelect(keyword, *selects): the new object, or the error
CompoundSelect_init(h, selects) ==
    LET r == CompoundSelect_loop(h, selects, 1, <<>>)
    IN IF r.err # "" THEN [h |-> r.h, id |-> 0, err |-> r.err, msg |-> r.msg]
       ELSE [h |-> Append(r.h, CompoundSelect(selects)), id |-> Len(r.h) + 1,
             err |-> "", msg |-> <<>>]

(***************************************************************************)
(* alias(): FromClause.alias, Join.alias, FromGrouping.alias.              *)
(***************************************************************************)
\* the first column found by the adapters of a chain, else the column
FirstFound(found, col) ==
    IF \E i \in 1..Len(found) : found[i] # NoColumn
    THEN found[CHOOSE i \in 1..Len(found) :
                  found[i] # NoColumn /\ \A j \in 1..(i - 1) : found[j] = NoColumn]
    ELSE col

\* ClauseAdapter(left_a).chain(ClauseAdapter(right_a)) on a column: the
\* column of the first of the two that has one embedded for it
adapt(h, left_a, right_a, col) ==
    FirstFound([i \in 1..2 |->
                  corresponding_column(h, <<left_a, right_a>>[i], col, TRUE)],
               col)

\* Join.select(use_labels=True, correlate=False)
Join_select(h, x) ==
    [Select(<<Col(h[x].left, "*"), Col(h[x].right, "*")>>, <<>>, <<x>>)
        EXCEPT !.use_labels = TRUE, !.auto_correlate = FALSE]

\* faulty variant: the flat alias is an outer join
Join_flat_outer(h, left_a, right_a, onclause, isouter) ==
    Join_init(h, left_a, right_a, onclause, TRUE)

\* left_a.join(right_a, adapter.traverse(self.onclause), isouter=self.isouter)
Join_flat(h, left_a, right_a, onclause, isouter) ==
    Join_init(h, left_a, right_a,
              [i \in 1..Len(onclause) |-> adapt(h, left_a, right_a, onclause[i])],
              isouter)

RECURSIVE alias(_, _, _)
alias(h, x, flat) ==
    CASE h[x].kind = "join" /\ flat ->
           LET l == alias(h, h[x].left, TRUE)
               r == alias(l.h, h[x].right, TRUE)
           IN Join_flat(r.h, l.id, r.id, h[x].onclause, h[x].isouter)
      [] h[x].kind = "join" /\ ~flat ->
           LET h1 == Append(h, Join_select(h, x))
           IN [h |-> Append(h1, Alias(Len(h1))), id |-> Len(h1) + 1]
      [] h[x].kind = "grouping" ->
           LET e == alias(h, h[x].element, flat)
           IN [h |-> Append(e.h, FromGrouping(e.id)), id |-> Len(e.h) + 1]
      [] OTHER -> [h |-> Append(h, Alias(x)), id |-> Len(h) + 1]

(***************************************************************************)
(* SpecColumns: one call on the exported columns of a FROM object.  The    *)
(* objects are those of Init and a few more; the call and its arguments    *)
(* are chosen at the start, one step runs it.                              *)
(***************************************************************************)
AA == S0 + 1   \* A1.alias()
SL == S0 + 2   \* select([A1.c.a, T1.c.a]).apply_labels()
SU1 == S0 + 3 \* select([T1.c.a, T1.c.b])
SU2 == S0 + 4 \* select([T1.c.b, T1.c.a])
UU == S0 + 5   \* CompoundSelect(UNION, SU1, SU2)
AS == S0 + 6   \* SA.alias()
JT == S0 + 7   \* A1.join(T2, A1.c.a == T2.c.a)
JC == S0 + 8   \* A1.join(A1C, A1.c.a == A1C.c.b); A1C.c is A1.c
JL == S0 + 9   \* J1.outerjoin(T3, T1.c.a == T3.c.a)
SZ == S0 + 10  \* select([])

\* A1 with its columns read: the other objects take columns of it
A1Populated ==
    [Alias(T1) EXCEPT !.populated = TRUE,
                      !.memo = {"columns", "primary_key", "foreign_keys"},
                      !.npopulate = 1,
                      !._columns = Alias_populate_column_collection(
                                      A1, TableClause_columns(T1))]

ColumnObjs ==
    << TableClause("t1"), TableClause("t2"), TableClause("t3"),
       A1Populated,
       Join(T1, T2, <<Col(T1, "a"), Col(T2, "a")>>, FALSE),
       FromGrouping(J1),
       Join(A1, G1, <<Col(A1, "a"), Col(T1, "a")>>, FALSE),
       Select(<<Col(T1, "a")>>, <<>>, <<>>),
       Select(<<Col(T2, "a")>>, <<>>, <<>>),
       CompoundSelect(<<SA, SB>>),
       [A1Populated EXCEPT !.clone_of = A1, !.npopulate = 0],
       Select(<<Col(T1, "a"), Col(T2, "b")>>, <<>>, <<>>),
       Alias(A1),
       [Select(<<Col(A1, "a"), Col(T1, "a")>>, <<>>, <<>>)
           EXCEPT !.use_labels = TRUE],
       Select(<<Col(T1, "a"), Col(T1, "b")>>, <<>>, <<>>),
       Select(<<Col(T1, "b"), Col(T1, "a")>>, <<>>, <<>>),
       CompoundSelect(<<SU1, SU2>>),
       Alias(SA),
       Join(A1, T2, <<Col(A1, "a"), Col(T2, "a")>>, FALSE),
       Join(A1, A1C, <<Col(A1, "a"), Col(A1, "b")>>, FALSE),
       Join(J1, T3, <<Col(T1, "a"), Col(T3, "a")>>, TRUE),
       Select(<<>>, <<>>, <<>>) >>

\* the selects a CompoundSelect is made of: one, two and no columns
Components == {SA, SB, S0, SZ}

MaxSelects == 3

\* the object a cloning traversal ran over before the call (0: none)
ClonedBefore == {0, AA, UU, J2, SL}

\* every column some object of the heap exports
AllColumns(h) == UNION {ColumnsOf(ExportedColumns(h, x)) : x \in 1..Len(h)}

InitColumnsSpec ==
    /\ \E k \in ClonedBefore :
         objs = IF k = 0 THEN ColumnObjs ELSE CloneOf(ColumnObjs, k).h
    /\ cur = S0
    /\ \/ \E x \in 1..Len(objs), column \in AllColumns(objs),
             require_embedded \in BOOLEAN :
            lastOp = [op |-> "call", recv |-> x,
                      arg |-> [column |-> column,
                               require_embedded |-> require_embedded],
                      res |-> NoColumn, err |-> ""]
       \/ \E left, right \in 1..Len(objs), k \in {"a", "b"} :
            /\ ExportedColumns(objs, left) # <<>>
            /\ ExportedColumns(objs, right) # <<>>
            /\ lastOp = [op |-> "call_join", recv |-> left,
                         arg |-> [right |-> right,
                                  onclause |->
                                    <<ExportedColumns(objs, left)[1].col,
                                      IF k = "a"
                                      THEN ExportedColumns(objs, right)[1].col
                                      ELSE ExportedColumns(objs, right)
                                             [Len(ExportedColumns(objs, right))].col>>],
                         res |-> 0, err |-> ""]
       \/ \E n \in 1..MaxSelects : \E selects \in [1..n -> Components] :
            lastOp = [op |-> "call_compound", recv |-> 0,
                      arg |-> [selects |-> selects], res |-> 0, err |-> ""]
       \/ \E x \in 1..Len(objs), flat \in BOOLEAN :
            lastOp = [op |-> "call_alias", recv |-> x,
                      arg |-> [flat |-> flat], res |-> 0, err |-> ""]
    /\ ngen = 0
    /\ nclone = 0

CorrespondingColumn ==
    /\ lastOp.op = "call"
    /\ lastOp' = [lastOp EXCEPT
                    !.op = "corresponding_column",
                    !.res = corresponding_column(objs, lastOp.recv,
                               lastOp.arg.column,
                               lastOp.arg.require_embedded)]
    /\ UNCHANGED <<objs, cur, ngen, nclone>>

\* left.join(right, onclause), and a read of the columns of the Join
JoinColumns ==
    /\ lastOp.op = "call_join"
    /\ LET r == Join_init(objs, lastOp.recv, lastOp.arg.right,
                          lastOp.arg.onclause, FALSE)
       IN /\ objs' = r.h
          /\ lastOp' = [lastOp EXCEPT !.op = "join", !.res = r.id]
    /\ UNCHANGED <<cur, ngen, nclone>>

\* x.alias(flat=flat)
AliasCall ==
    /\ lastOp.op = "call_alias"
    /\ LET r == alias(objs, lastOp.recv, lastOp.arg.flat)
       IN /\ objs' = r.h
          /\ lastOp' = [lastOp EXCEPT !.op = "alias", !.res = r.id]
    /\ UNCHANGED <<cur, ngen, nclone>>

\* CompoundSelect(UNION, *selects)
CompoundCall ==
    /\ lastOp.op = "call_compound"
    /\ LET r == CompoundSelect_init(objs, lastOp.arg.selects)
       IN /\ objs' = r.h
          /\ lastOp' = [op |-> "compound", recv |-> 0,
                        arg |-> [selects |-> lastOp.arg.selects,
                                 msg |-> r.msg],
                        res |-> r.id, err |-> r.err]
    /\ UNCHANGED <<cur, ngen, nclone>>

NextColumns == CorrespondingColumn \/ JoinColumns \/ AliasCall \/ CompoundCall

SpecColumns == InitColumnsSpec /\ [][NextColumns]_vars

(***************************************************************************)
(* Claims about corresponding_column.                                      *)
(***************************************************************************)
\* the call that just returned
Called == lastOp.op = "corresponding_column"

\* the exported columns of the receiver whose clone-expanded proxy_set
\* intersects the proxy_set of the target, with the intersection
Overlap(cand) ==
    proxy_set(objs, lastOp.arg.column)
       \cap Column_expand_cloned(proxy_set(objs, cand))

Candidates ==
    {cand \in ColumnsOf(ExportedColumns(objs, lastOp.recv)) :
        Overlap(cand) # {}}

\* C11: corresponding_column(col) returns col itself when col is an
\* exported column of the receiver; otherwise it returns an exported column
\* whose clone-expanded proxy_set has an intersection of maximum size with
\* col.proxy_set among the exported columns that intersect it, and None
\* exactly when no exported column intersects.
C11_LargestOverlap ==
    (Called /\ ~lastOp.arg.require_embedded) =>
        LET column == lastOp.arg.column
            exported == ColumnsOf(ExportedColumns(objs, lastOp.recv))
        IN IF column \in exported THEN lastOp.res = column
           ELSE /\ lastOp.res = NoColumn <=> Candidates = {}
                /\ lastOp.res # NoColumn =>
                     /\ lastOp.res \in Candidates
                     /\ \A cand \in Candidates :
                           Cardinality(Overlap(cand))
                              <= Cardinality(Overlap(lastOp.res))

\* C11 witness: the target is not exported, two exported columns intersect
\* it with overlaps of different sizes, and the one returned is not the
\* first of them
C11_Witness ==
    /\ Called /\ ~lastOp.arg.require_embedded
    /\ lastOp.arg.column \notin ColumnsOf(ExportedColumns(objs, lastOp.recv))
    /\ lastOp.res # NoColumn
    /\ \E cand \in Candidates :
          Cardinality(Overlap(cand)) < Cardinality(Overlap(lastOp.res))
    /\ LET cols == ExportedColumns(objs, lastOp.recv)
       IN \E i, j \in 1..Len(cols) :
             /\ i < j
             /\ cols[i].col \in Candidates
             /\ cols[j].col = lastOp.res

\* the exported columns whose overlap with the target is of maximum size
Largest ==
    {cand \in Candidates :
        \A other \in Candidates :
            Cardinality(Overlap(other)) <= Cardinality(Overlap(cand))}

\* the position of an exported column of the receiver
Position(col) ==
    LET cols == ExportedColumns(objs, lastOp.recv)
    IN CHOOSE i \in 1..Len(cols) : cols[i].col = col

\* the call looked for a column the receiver does not export, and found one
Searched ==
    /\ Called /\ ~lastOp.arg.require_embedded
    /\ lastOp.arg.column \notin ColumnsOf(ExportedColumns(objs, lastOp.recv))
    /\ lastOp.res # NoColumn

\* C12 as stated: among the candidates of largest overlap the one returned
\* has the smallest proxy_set of its own and, among those of that size, the
\* smallest sum of weights over the members of its proxy_set that share
\* lineage with the target.
C12_TieBreak_AsStated ==
    Searched =>
        \A cand \in Largest :
            LET n == Cardinality(proxy_set(objs, lastOp.res))
                m == Cardinality(proxy_set(objs, cand))
            IN /\ n <= m
               /\ n = m => distance(objs, lastOp.res, lastOp.arg.column)
                              <= distance(objs, cand, lastOp.arg.column)

\* C12 amended: among the candidates of largest overlap the first exported
\* one decides the overlap; the column returned is, among the candidates
\* with exactly that overlap, the one with the smallest sum of weights over
\* the members of its proxy_set that share lineage with the target (weight
\* 1, or i + 1 for the column of the i-th SELECT of a CompoundSelect), the
\* earliest exported when the sums are equal; so of two columns of a UNION
\* derived from the same column the one the earlier SELECT lists at its
\* position is returned.
C12_TieBreak ==
    /\ Searched =>
         LET first == CHOOSE f \in Largest :
                         \A g \in Largest : Position(f) <= Position(g)
             column == lastOp.arg.column
         IN /\ Overlap(lastOp.res) = Overlap(first)
            /\ \A cand \in Largest :
                  Overlap(cand) = Overlap(first) =>
                     \/ distance(objs, lastOp.res, column)
                           < distance(objs, cand, column)
                     \/ /\ distance(objs, lastOp.res, column)
                              = distance(objs, cand, column)
                        /\ Position(lastOp.res) <= Position(cand)
    /\ (Searched /\ lastOp.recv = UU /\ objs[UU].selects = <<SU1, SU2>>) =>
         \A k \in {"a", "b"} :
            lastOp.arg.column = Col(T1, k) => lastOp.res = Col(UU, k)

\* C12 witness: two columns of a UNION have the same overlap with the
\* target and the same number of columns in their proxy_set; the one
\* returned is exported second and has the smaller sum of weights
C12_Witness ==
    /\ Searched
    /\ objs[lastOp.recv].kind = "compound"
    /\ \E cand \in Largest \ {lastOp.res} :
          /\ Overlap(cand) = Overlap(lastOp.res)
          /\ Cardinality(proxy_set(objs, cand))
                = Cardinality(proxy_set(objs, lastOp.res))
          /\ Position(cand) < Position(lastOp.res)
          /\ distance(objs, lastOp.res, lastOp.arg.column)
                < distance(objs, cand, lastOp.arg.column)

\* a call with require_embedded=True for a column the receiver does not export
SearchedEmbedded ==
    /\ Called /\ lastOp.arg.require_embedded
    /\ lastOp.arg.column \notin ColumnsOf(ExportedColumns(objs, lastOp.recv))

\* every member of the target's proxy_set outside the clone-expanded
\* proxy_set of cand is a copy of a member of it
Embedded(cand) ==
    LET expanded == Column_expand_cloned(proxy_set(objs, cand))
    IN \A t \in proxy_set(objs, lastOp.arg.column) \ expanded :
          Column_expand_cloned({t}) \cap expanded # {}

RECURSIVE AliasedTable(_, _)
AliasedTable(h, x) ==
    CASE h[x].kind = "table" -> x
      [] h[x].kind = "alias" -> AliasedTable(h, h[x].element)
      [] OTHER -> 0

\* C14: for every table T, column x of T and alias A of T, an alias of an
\* alias included, A.corresponding_column(T.c.x) is A.c.x, and the
\* proxy_set of A.c.x contains T.c.x.
C14_AliasRoundTrip ==
    (Called /\ objs[lastOp.recv].kind = "alias"
            /\ AliasedTable(objs, lastOp.recv) # 0
            /\ lastOp.arg.column.t = AliasedTable(objs, lastOp.recv)) =>
        LET cols == ExportedColumns(objs, lastOp.recv)
            x == lastOp.arg.column.k
        IN /\ \E i \in 1..Len(cols) :
                 cols[i].key = x /\ cols[i].col = lastOp.res
           /\ lastOp.res # lastOp.arg.column
           /\ lastOp.arg.column \in proxy_set(objs, lastOp.res)

\* C14 witness: the alias of an alias of T1, asked for T1.c.b, returned its
\* own column b
C14_Witness ==
    /\ Called
    /\ lastOp.recv = AA
    /\ objs[objs[AA].element].kind = "alias"
    /\ lastOp.arg.column = Col(T1, "b")
    /\ lastOp.res = Col(AA, "b")

(***************************************************************************)
(* Claims about the columns of a Join.                                     *)
(***************************************************************************)
\* the Join just made, and the columns of its two sides
Joined == lastOp.op = "join"

SideColumns ==
    LET l == ExportedColumns(objs, objs[lastOp.res].left)
        r == ExportedColumns(objs, objs[lastOp.res].right)
    IN [i \in 1..(Len(l) + Len(r)) |->
           IF i <= Len(l) THEN l[i].col ELSE r[i - Len(l)].col]

JoinedColumns ==
    LET cols == ExportedColumns(objs, lastOp.res)
    IN [i \in 1..Len(cols) |-> cols[i].col]

SideLabels == [i \in 1..Len(SideColumns) |-> _label(objs, SideColumns[i])]

\* C15 as stated: the columns of every Join(A, B) are the columns of A
\* followed by the columns of B, as many as A and B have together.
C15_JoinColumns_AsStated ==
    Joined => JoinedColumns = SideColumns

\* C15 amended: the columns of Join(A, B) are the columns of A followed by
\* the columns of B, stored under their _label: one entry per distinct
\* label, at the place of the first column with that label and holding the
\* last one.  When no two of the columns share a label the collection is
\* the concatenation and its length is len(A.columns) + len(B.columns).
\* The onclause has no part in it: a primary key column the onclause
\* equates to another is left out of primary_key only.
C15_JoinColumns ==
    Joined =>
        LET sc == SideColumns
            sl == SideLabels
            jc == JoinedColumns
            \* the place of the first column labelled like sc[n]
            first(n) == CHOOSE q \in 1..n :
                           sl[q] = sl[n] /\ \A p \in 1..(q - 1) : sl[p] # sl[n]
            \* the last columns of their label, in the order of the firsts
            lasts == {n \in 1..Len(sc) :
                         \A q \in (n + 1)..Len(sc) : sl[q] # sl[n]}
        IN /\ Len(jc) = Cardinality(Range(sl))
           /\ \A n \in lasts :
                 jc[Cardinality({m \in lasts : first(m) <= first(n)})] = sc[n]
           /\ Cardinality(Range(sl)) = Len(sl) => jc = sc
           /\ Range(primary_key(objs, lastOp.res)) \subseteq Range(sc)
           /\ ExportedColumns(objs, lastOp.res) =
                 ExportedColumns([objs EXCEPT ![lastOp.res].onclause = <<>>],
                                 lastOp.res)

\* C15 witness: a join of two different tables on their primary keys holds
\* the four columns of its sides while its primary_key holds only one
C15_Witness ==
    /\ Joined
    /\ objs[lastOp.res].left = T1
    /\ objs[lastOp.res].right = T2
    /\ lastOp.arg.onclause = <<Col(T1, "a"), Col(T2, "a")>>
    /\ Len(JoinedColumns) = 4
    /\ primary_key(objs, lastOp.res) = <<Col(T1, "a")>>

(***************************************************************************)
(* Claims about Join.alias.                                                *)
(***************************************************************************)
\* a is what alias(flat=True) makes of b: an Alias of b, or for a Join the
\* Join, with the same isouter flag, of what it makes of the two sides (a
\* FromGrouping around a nested Join is kept)
RECURSIVE FlatOf(_, _, _)
FlatOf(h, a, b) ==
    CASE h[b].kind = "join" ->
           /\ h[a].kind = "join"
           /\ h[a].isouter = h[b].isouter
           /\ FlatOf(h, h[a].left, h[b].left)
           /\ FlatOf(h, h[a].right, h[b].right)
      [] h[b].kind = "grouping" ->
           h[a].kind = "grouping" /\ FlatOf(h, h[a].element, h[b].element)
      [] OTHER -> h[a].kind = "alias" /\ h[a].element = b

\* the Alias objects a flat alias is made of
RECURSIVE Leaves(_, _)
Leaves(h, a) ==
    CASE h[a].kind = "join" -> Leaves(h, h[a].left) \cup Leaves(h, h[a].right)
      [] h[a].kind = "grouping" -> Leaves(h, h[a].element)
      [] OTHER -> {a}

\* C16: j.alias(flat=True) on a Join j returns a Join, with no SELECT around
\* it, whose left and right are an Alias of j.left and of j.right (for a
\* side that is itself a Join, its flat alias in turn), with j's isouter
\* flag and an onclause over columns of these aliases only; j.alias()
\* returns one Alias whose element is a SELECT over the join.
C16_JoinAlias ==
    (lastOp.op = "alias" /\ objs[lastOp.recv].kind = "join") =>
        LET j == lastOp.recv
            a == lastOp.res
        IN IF lastOp.arg.flat
           THEN /\ objs[a].kind = "join"
                /\ FlatOf(objs, a, j)
                /\ objs[a].isouter = objs[j].isouter
                /\ Len(objs[a].onclause) = Len(objs[j].onclause)
                /\ \A i \in 1..Len(objs[a].onclause) :
                      /\ objs[a].onclause[i].t
                            \in Leaves(objs, objs[a].left)
                                  \cup Leaves(objs, objs[a].right)
                      /\ objs[a].onclause[i].k = objs[j].onclause[i].k
                /\ \A x \in Leaves(objs, a) : objs[x].kind = "alias"
           ELSE /\ objs[a].kind = "alias"
                /\ objs[objs[a].element].kind = "select"
                /\ objs[objs[a].element].from_obj = <<j>>
                /\ objs[objs[a].element].raw_columns
                      = <<Col(objs[j].left, "*"), Col(objs[j].right, "*")>>
                /\ objs[objs[a].element].use_labels

\* C16 witness: the flat alias of an outer join whose left side is a join
\* is an outer join of a join of two aliases and an alias
C16_Witness ==
    /\ lastOp.op = "alias" /\ lastOp.arg.flat
    /\ lastOp.recv = JL
    /\ objs[lastOp.res].kind = "join"
    /\ objs[lastOp.res].isouter
    /\ objs[objs[lastOp.res].left].kind = "join"
    /\ objs[objs[objs[lastOp.res].left].left].kind = "alias"
    /\ objs[objs[lastOp.res].right].kind = "alias"
    /\ objs[objs[lastOp.res].right].element = T3

(***************************************************************************)
(* Claims about CompoundSelect.__init__.                                   *)
(***************************************************************************)
\* the numbers of columns of the selects given
Counts ==
    [i \in 1..Len(lastOp.arg.selects) |->
        Len(ExportedColumns(objs, lastOp.arg.selects[i]))]

\* the places of the selects whose number of columns is not the first's
Mismatched == {i \in 1..Len(Counts) : Counts[i] # Counts[1]}

\* C17: CompoundSelect(...) raises ArgumentError whenever a select given
\* exports another number of columns than the first, no columns included;
\* the error names the first select's number of columns and the place,
\* from 1, and number of columns of the first select that differs; no
\* CompoundSelect over selects of different numbers of columns is made.
C17_MismatchRaises ==
    lastOp.op = "compound" =>
        /\ Mismatched # {} =>
              /\ lastOp.err = "ArgumentError"
              /\ lastOp.res = 0
              /\ LET n == CHOOSE i \in Mismatched : \A j \in Mismatched : i <= j
                 IN lastOp.arg.msg = <<1, Counts[1], n, Counts[n]>>
        /\ Mismatched = {} => lastOp.err = "" /\ lastOp.res # 0

(***************************************************************************)
(* SpecMemo: reads of columns, primary_key and foreign_keys, cloning and a *)
(* generative call, over the objects of ColumnObjs.                        *)
(***************************************************************************)
InitMemo ==
    /\ objs = ColumnObjs
    /\ cur = S0
    /\ lastOp = NoOp
    /\ ngen = 0
    /\ nclone = 0

\* the objects the caller reads: four of the first, its Select, and the
\* object the last call handed back
Readable == ({T1, G1, AS, U1, cur, lastOp.res} \cap 1..Len(objs))

ReadCollection ==
    \E x \in Readable, attr \in Collections :
        LET r == read(objs, x, attr)
        IN /\ objs' = r.h
           /\ lastOp' = [op |-> "read", arg |-> attr, recv |-> x,
                         res |-> x, err |-> r.err]
           /\ UNCHANGED <<cur, ngen, nclone>>

\* a cloning traversal over one of the first objects
ClonableMemo == {J1, A1, AS, U1, G1}

CloneMemo ==
    /\ nclone < MaxClone
    /\ \E x \in ClonableMemo :
         LET r == CloneOf(objs, x)
         IN /\ objs' = r.h
            /\ lastOp' = [op |-> "clone", arg |-> <<>>, recv |-> x,
                          res |-> r.id, err |-> ""]
    /\ nclone' = nclone + 1
    /\ UNCHANGED <<cur, ngen>>

NextMemo == ReadCollection \/ CloneMemo \/ CloneSelect

SpecMemo == InitMemo /\ [][NextMemo]_vars

(***************************************************************************)
(* Claims about the memoized collections.                                  *)
(***************************************************************************)
\* C18 as stated: whatever FromClause is read, its populate hook has run
\* exactly once and no assertion of _init_collections has failed
C18_PopulatesOnce_AsStated ==
    lastOp.op = "read" =>
        /\ lastOp.err # "AssertionError"
        /\ objs[lastOp.recv].npopulate = 1

\* C18 amended: over reads of columns, primary_key and foreign_keys in any
\* order, with no reset in between, no assertion of _init_collections
\* fails and the populate hook of an instance runs at most once: exactly
\* once, on the first read, when the instance did not hold _columns by
\* then, and never when it did (a TableClause holds it from __init__ on, a
\* copy of an Alias of a table keeps the one its original held) nor on a
\* FromGrouping, whose reads are its element's.  Once _columns is there
\* every read of columns returns that same collection, contents and order
\* unchanged.
C18_PopulatesOnce ==
    [][/\ lastOp'.err # "AssertionError"
       /\ \A x \in 1..Len(objs) :
             /\ objs'[x].npopulate <= 1
             /\ objs[x].npopulate <= objs'[x].npopulate
             /\ objs[x].populated =>
                   /\ objs'[x].populated
                   /\ objs'[x]._columns = objs[x]._columns
                   /\ objs'[x].npopulate = objs[x].npopulate
                   /\ objs[x].memo \subseteq objs'[x].memo
                   /\ ExportedColumns(objs', x) = ExportedColumns(objs, x)
       /\ lastOp'.op = "read" =>
             LET x == lastOp'.recv
                 o == objs[x]
                 n == objs'[x]
             IN CASE o.kind \in {"table", "grouping"} ->
                       n = o /\ o.npopulate = 0 /\ o.memo = {}
                  [] OTHER ->
                       /\ n.populated
                       /\ lastOp'.arg \in n.memo
                       /\ n.npopulate = IF o.populated THEN o.npopulate ELSE 1
                       /\ n._columns =
                             IF o.populated THEN o._columns
                             ELSE ExportedColumns(
                                     [objs' EXCEPT ![x].populated = FALSE], x)
      ]_vars

\* C18 witness: primary_key is the last of the three collections read from
\* a CompoundSelect; its hook and the hook of its first select ran once
C18_Witness ==
    /\ lastOp.op = "read"
    /\ lastOp.arg = "primary_key"
    /\ lastOp.recv = U1
    /\ lastOp.err = ""
    /\ objs[U1].memo = Collections
    /\ objs[U1].npopulate = 1
    /\ objs[SA].npopulate = 1
    /\ objs[U1]._columns # <<>>

\* the last call copied an object whose collections were populated
ClonedPopulated ==
    /\ lastOp.op = "clone"
    /\ lastOp.res # lastOp.recv
    /\ objs[lastOp.recv].kind \in {"join", "alias", "select", "compound"}
    /\ objs[lastOp.recv].populated

\* C19: the copy a cloning traversal makes of a populated Join, Alias of a
\* table, Alias of a select, Select or CompoundSelect holds no memoized
\* columns, primary_key or foreign_keys; its columns are built on its first
\* read and are columns of the copy, not of the original.
C19_ClonesStartUnpopulated ==
    ClonedPopulated =>
        LET n == lastOp.res
            r == read(objs, n, "columns")
        IN /\ ~objs[n].populated
           /\ objs[n].memo = {}
           /\ objs[n]._columns = <<>>
           /\ r.h[n].npopulate = 1
           /\ objs[n].kind # "join" =>
                 \A i \in 1..Len(r.h[n]._columns) :
                    r.h[n]._columns[i].col.t = n

\* the FromGrouping objects of the heap
Groupings == {g \in 1..Len(objs) : objs[g].kind = "grouping"}

\* C20: a FromGrouping G over E answers columns, primary_key, foreign_keys,
\* is_derived_from(x), _hide_froms and _from_objects as E does, whether E
\* is not populated yet, is populated or has had its collections dropped,
\* and G itself never holds _columns or a memoized collection.
C20_GroupingDelegates ==
    \A g \in Groupings :
        LET e == objs[g].element
            dropped == [objs EXCEPT ![e] = _reset_exported(@)]
        IN /\ ~objs[g].populated
           /\ objs[g].memo = {}
           /\ objs[g]._columns = <<>>
           /\ objs[g].npopulate = 0
           /\ \A h \in {objs, dropped} :
                 /\ \A attr \in Collections :
                       /\ read(h, g, attr) = read(h, e, attr)
                       /\ read(h, g, attr).h[g] = objs[g]
                 /\ ExportedColumns(h, g) = ExportedColumns(h, e)
                 /\ primary_key(h, g) = primary_key(h, e)
                 /\ \A x \in 1..Len(h) :
                       is_derived_from(h, g, x) = is_derived_from(h, e, x)
                 /\ _hide_froms(h, g) = _hide_froms(h, e)
                 /\ _from_objects(h, g) = _from_objects(h, e)

\* C20 witness: primary_key was read through the FromGrouping of a join;
\* the join holds the collections, the FromGrouping none, and both answer
\* with the join's four columns and hide the join's two tables
C20_Witness ==
    /\ lastOp.op = "read"
    /\ lastOp.recv = G1
    /\ lastOp.arg = "primary_key"
    /\ objs[J1].populated
    /\ objs[J1].npopulate = 1
    /\ objs[G1].memo = {}
    /\ Len(ExportedColumns(objs, G1)) = 4
    /\ ExportedColumns(objs, G1) = objs[J1]._columns
    /\ _hide_froms(objs, G1) = {T1, T2}
    /\ is_derived_from(objs, G1, T1)

(***************************************************************************)
(* Names of Alias and CTE objects.  `addr` is id(self): no two live        *)
(* objects share one, and the address of a collected object is free again. *)
(* A name is the pair (id, text): id is -1 for a name given by the caller. *)
(***************************************************************************)
NoName == ""

MaxAddr == 5

Addrs == 1..MaxAddr

\* the addresses no live Alias or CTE occupies
FreeAddrs(h) == Addrs \ {h[x].addr : x \in {y \in 1..Len(h) : h[y].alive}}

\* FromClause.named_with_column: set by Alias and TableClause
named_with_column(h, x) == h[x].kind \in {"table", "alias"}

\* Alias.original: the element, Aliases stepped through
RECURSIVE original(_, _)
original(h, selectable) ==
    IF h[selectable].kind = "alias" THEN original(h, h[selectable].element)
    ELSE selectable

\* _anonymous_label('%%(%d %s)s' % (id(self), name or 'anon'))
_anonymous_label(addr, name) ==
    [id |-> addr, name |-> IF name # NoName THEN name ELSE "anon"]

\* faulty variant: the label is made of the name alone
Alias_name_without_id(h, selectable, name, addr) ==
    IF name # NoName THEN [id |-> -1, name |-> name]
    ELSE _anonymous_label(0,
            IF named_with_column(h, original(h, selectable))
            THEN h[original(h, selectable)].name.name ELSE NoName)

\* the name Alias.__init__ stores
Alias_name(h, selectable, name, addr) ==
    IF name # NoName THEN [id |-> -1, name |-> name]
    ELSE _anonymous_label(addr,
            IF named_with_column(h, original(h, selectable))
            THEN h[original(h, selectable)].name.name ELSE NoName)

\* Alias(selectable, name), built at address addr
Alias_init(h, selectable, name, addr) ==
    [Alias(selectable) EXCEPT !.addr = addr,
                              !.name = Alias_name(h, selectable, name, addr)]

\* the Alias objects of h from the first-th on
NewAliases(h, first) == {n \in first..Len(h) : h[n].kind = "alias"}

\* the ways of placing the objects of S at free addresses
Placements(S, free) ==
    {f \in [S -> free] : \A m, n \in S : m # n => f[m] # f[n]}

\* the Alias objects a call built get their addresses and, through
\* Alias.__init__, their names; `top` is the one that was given `name`
Allocate(h, first, top, name, f) ==
    [n \in 1..Len(h) |->
        IF n \in NewAliases(h, first)
        THEN [h[n] EXCEPT
                !.addr = f[n],
                !.name = Alias_name(h, h[n].element,
                                    IF n = top THEN name ELSE NoName, f[n])]
        ELSE h[n]]

\* the copies a cloning traversal made sit at addresses of their own; their
\* dictionaries, name included, are those of their originals
Readdress(h, first, f) ==
    [n \in 1..Len(h) |->
        IF n \in NewAliases(h, first) THEN [h[n] EXCEPT !.addr = f[n]]
        ELSE h[n]]

\* Join.alias(name, flat), the new objects placed by f
Join_alias(h, x, name, flat, f) ==
    IF flat /\ name # NoName
    THEN [h |-> h, id |-> 0, err |-> "AssertionError"]
    ELSE LET r == alias(h, x, flat)
         IN [h |-> Allocate(r.h, Len(h) + 1, IF flat THEN 0 ELSE r.id, name, f),
             id |-> r.id, err |-> ""]

\* CTE(selectable, name, recursive, _restates=...)
CTE_init(h, selectable, name, recursive, restates, addr) ==
    [Alias_init(h, selectable, name, addr) EXCEPT
        !.cte = TRUE, !.recursive = recursive, !._restates = restates]

\* the CTE built around the CompoundSelect u: CTE(u, name=self.name,
\* recursive=self.recursive, _restates=self._restates.union([self]))
CTE_restating(h, c, u, keyword, addr) ==
    IF u.err # "" THEN [h |-> u.h, id |-> 0, err |-> u.err]
    ELSE [h |-> Append([u.h EXCEPT ![u.id].keyword = keyword],
                       [CTE_init(u.h, u.id, NoName, h[c].recursive,
                                 h[c]._restates \cup {c}, addr)
                           EXCEPT !.name = h[c].name]),
          id |-> Len(u.h) + 1, err |-> ""]

\* CTE.union(other), CTE.union_all(other): self.original.union(other) is
\* Select.union, CompoundSelect(UNION, self.original, other); a
\* CompoundSelect has no method union.  name=self.name hands the label of
\* self on as it is.
CTE_union(h, c, other, keyword, addr) ==
    IF h[original(h, c)].kind # "select"
    THEN [h |-> h, id |-> 0, err |-> "AttributeError"]
    ELSE CTE_restating(h, c, CompoundSelect_init(h, <<original(h, c), other>>),
                       keyword, addr)

(***************************************************************************)
(* SpecNames: alias(), Join.alias(), cloning and the collection of an      *)
(* Alias nothing refers to any more.                                       *)
(***************************************************************************)
C0 == S0 + 1   \* SA.cte()

NamedObjs ==
    << TableClause("t1"), TableClause("t2"), TableClause("t3"),
       Alias_init(<<TableClause("t1")>>, T1, NoName, 1),
       Join(T1, T2, <<Col(T1, "a"), Col(T2, "a")>>, FALSE),
       FromGrouping(J1),
       Join(A1, G1, <<Col(A1, "a"), Col(T1, "a")>>, FALSE),
       Select(<<Col(T1, "a")>>, <<>>, <<>>),
       Select(<<Col(T2, "a")>>, <<>>, <<>>),
       CompoundSelect(<<SA, SB>>),
       [Alias_init(<<TableClause("t1")>>, T1, NoName, 1)
           EXCEPT !.addr = 2, !.clone_of = A1],
       Select(<<Col(T1, "a"), Col(T1, "b")>>, <<>>, <<>>),
       [Alias(SA) EXCEPT !.addr = 3, !.name = _anonymous_label(3, NoName),
                         !.cte = TRUE] >>

InitNames ==
    /\ objs = NamedObjs
    /\ cur = S0
    /\ lastOp = NoOp
    /\ ngen = 0
    /\ nclone = 0

\* what happened to the heap and what the call handed back
Returned(op, recv, arg, r) ==
    /\ objs' = r.h
    /\ lastOp' = [op |-> op, arg |-> arg, recv |-> recv, res |-> r.id,
                  err |-> r.err]

\* x.alias(name) on a FROM object that is not a Join
AliasOf ==
    /\ ngen < MaxGen
    /\ \E x \in {T1, SA}, name \in {NoName, "x"},
          addr \in FreeAddrs(objs) :
         Returned("alias", x, [name |-> name, flat |-> FALSE],
                  [h |-> Append(objs, Alias_init(objs, x, name, addr)),
                   id |-> Len(objs) + 1, err |-> ""])
    /\ ngen' = ngen + 1
    /\ UNCHANGED <<cur, nclone>>

\* j.alias(name, flat) on a Join
JoinAlias ==
    /\ ngen < MaxGen
    /\ \E x \in {J1}, name \in {NoName, "x"}, flat \in BOOLEAN :
         LET made == IF flat /\ name # NoName THEN objs
                     ELSE alias(objs, x, flat).h
         IN \E f \in Placements(NewAliases(made, Len(objs) + 1),
                                FreeAddrs(objs)) :
               Returned("join_alias", x, [name |-> name, flat |-> flat],
                        Join_alias(objs, x, name, flat, f))
    /\ ngen' = ngen + 1
    /\ UNCHANGED <<cur, nclone>>

\* s.cte(name, recursive)
Cte ==
    /\ ngen < MaxGen
    /\ \E x \in {SB}, name \in {NoName, "x"}, recursive \in BOOLEAN,
          addr \in FreeAddrs(objs) :
         Returned("cte", x, [name |-> name, flat |-> FALSE],
                  [h |-> Append(objs, CTE_init(objs, x, name, recursive,
                                               {}, addr)),
                   id |-> Len(objs) + 1, err |-> ""])
    /\ ngen' = ngen + 1
    /\ UNCHANGED <<cur, nclone>>

\* the CTE objects of the heap
Ctes(h) == {x \in 1..Len(h) : h[x].cte /\ h[x].alive}

\* c.union(other), c.union_all(other)
CteUnion ==
    /\ ngen < MaxGen
    /\ \E c \in Ctes(objs), other \in {SB, S0},
          keyword \in {"UNION", "UNION ALL"}, addr \in FreeAddrs(objs) :
         Returned("cte_union", c, [other |-> other, keyword |-> keyword],
                  CTE_union(objs, c, other, keyword, addr))
    /\ ngen' = ngen + 1
    /\ UNCHANGED <<cur, nclone>>

\* a cloning traversal over an Alias
CloneAlias ==
    /\ nclone < MaxClone
    /\ \E x \in {y \in {A1, lastOp.res} \cap 1..Len(objs) :
                    objs[y].kind = "alias" /\ objs[y].alive} :
         LET r == CloneOf(objs, x)
         IN \E f \in Placements(NewAliases(r.h, Len(objs) + 1),
                                FreeAddrs(objs)) :
               Returned("clone", x, <<>>,
                        [h |-> Readdress(r.h, Len(objs) + 1, f),
                         id |-> r.id, err |-> ""])
    /\ nclone' = nclone + 1
    /\ UNCHANGED <<cur, ngen>>

\* the objects that refer to x
Referrers(h, x) ==
    {n \in 1..Len(h) :
        /\ h[n].alive
        /\ \/ x \in {h[n].element, h[n].left, h[n].right}
           \/ x \in Range(h[n].selects) \cup Range(h[n].from_obj)
           \/ x \in h[n]._restates}

\* the caller drops the Alias it was just handed, or the copy of A1, when
\* nothing else refers to it: the object is collected.  One object is
\* collected in a behaviour.
Discard ==
    /\ \A y \in 1..Len(objs) : objs[y].alive
    /\ \E x \in {y \in {A1C, lastOp.res} \cap 1..Len(objs) :
                    objs[y].kind = "alias" /\ objs[y].alive} :
         /\ Referrers(objs, x) = {}
         /\ objs' = [objs EXCEPT ![x].alive = FALSE]
         /\ lastOp' = [op |-> "discard", arg |-> <<>>, recv |-> x,
                       res |-> 0, err |-> ""]
    /\ UNCHANGED <<cur, ngen, nclone>>

NextNames == AliasOf \/ JoinAlias \/ CloneAlias \/ Discard

SpecNames == InitNames /\ [][NextNames]_vars

\* SpecCte: cte() and chains of union() and union_all() on a CTE
NextCte == Cte \/ CteUnion

SpecCte == InitNames /\ [][NextCte]_vars

(***************************************************************************)
(* Claims about Join.alias(name, flat) and the names of Alias objects.     *)
(***************************************************************************)
\* C21: Join.alias called with a name and flat=True raises ArgumentError
\* and hands back no alias or join.
C21_NameWithFlatRejected ==
    (lastOp.op = "join_alias" /\ lastOp.arg.flat /\ lastOp.arg.name # NoName)
        => /\ lastOp.err = "ArgumentError"
           /\ lastOp.res = 0

\* the Alias and CTE objects, live or collected, that were given no name
Unnamed == {x \in 1..Len(objs) : objs[x].kind = "alias" /\ objs[x].name.id # -1}

\* C22 as stated: any two distinct Alias or CTE objects that were given no
\* name carry different names
C22_DistinctNames_AsStated ==
    \A a, b \in Unnamed : a # b => objs[a].name # objs[b].name

\* C22 amended: two distinct Alias or CTE objects that were given no name
\* carry different names when both were built by __init__ and are alive
\* at the same time.  A copy made by _clone carries the name of its
\* original, and a name holds the id() of the object it was made for, which
\* an Alias built after that object was collected may be given again.
C22_DistinctNames ==
    /\ \A a, b \in Unnamed :
          (/\ a # b
           /\ objs[a].alive /\ objs[b].alive
           /\ objs[a].clone_of = 0 /\ objs[b].clone_of = 0)
             => objs[a].name # objs[b].name
    /\ \A a \in Unnamed :
          /\ objs[a].clone_of # 0 => objs[a].name = objs[objs[a].clone_of].name
          /\ objs[a].clone_of = 0 => objs[a].name.id = objs[a].addr
    /\ \A a, b \in 1..Len(objs) :
          (a # b /\ objs[a].alive /\ objs[b].alive /\ objs[a].addr # 0)
             => objs[a].addr # objs[b].addr

\* C22 witness: t1.alias() made while the first alias of t1 is alive: both
\* names are made from "t1" and differ by the id
C22_Witness ==
    /\ lastOp.op = "alias"
    /\ lastOp.recv = T1
    /\ lastOp.arg.name = NoName
    /\ objs[A1].alive
    /\ objs[lastOp.res].alive
    /\ objs[lastOp.res].name.name = "t1"
    /\ objs[A1].name.name = "t1"
    /\ objs[lastOp.res].name.id # objs[A1].name.id

(***************************************************************************)
(* Claims about CTE.union and CTE.union_all.                               *)
(***************************************************************************)
\* C29: c.union(x) and c.union_all(x) on a CTE c, whatever chain of such
\* calls c itself came from, hand back a CTE with c's name and recursive
\* flag around the UNION of c's original selectable with x, whose restates
\* are those of c and c itself.
C29_CteUnionChain ==
    (/\ lastOp.op = "cte_union"
     /\ Len(ExportedColumns(objs, original(objs, lastOp.recv)))
           = Len(ExportedColumns(objs, lastOp.arg.other)))
        => /\ lastOp.err = ""
           /\ lastOp.res # 0
           /\ LET c == objs[lastOp.recv]
                  n == objs[lastOp.res]
              IN /\ n.cte
                 /\ n.name = c.name
                 /\ n.recursive = c.recursive
                 /\ n._restates = c._restates \cup {lastOp.recv}
                 /\ objs[n.element].kind = "compound"
                 /\ objs[n.element].keyword = lastOp.arg.keyword
                 /\ objs[n.element].selects
                       = <<original(objs, lastOp.recv), lastOp.arg.other>>

(***************************************************************************)
(* SpecThreads: two threads read a memoized collection of the same         *)
(* FromClause.  A thread runs under the interpreter lock and may be        *)
(* suspended between any two statements; lastOp holds the two calls in     *)
(* flight: the attribute each thread reads, its position, what it got.     *)
(***************************************************************************)
Threads == {1, 2}

\* the nodes read: an alias of a table, a join, an alias of a select
ThreadNodes == {A1, J1, AS}

\* what a thread holds when its read returns: the contents of the
\* collections at that moment and the runs of the populate hook so far
Obtained(o) == [cols |-> o._columns, runs |-> o.npopulate]

NotYet == [cols |-> <<>>, runs |-> -1]

InitThreads ==
    /\ \E x \in ThreadNodes, a1, a2 \in Collections,
          before \in Collections \cup {"none"} :
         /\ objs = IF before = "none"
                   THEN [ColumnObjs EXCEPT ![A1] = Alias(T1)]
                   ELSE read([ColumnObjs EXCEPT ![A1] = Alias(T1)], x, before).h
         /\ lastOp = [op |-> "threads", recv |-> x,
                      arg |-> [attrs |-> <<a1, a2>>, before |-> before],
                      pc |-> <<"lookup", "lookup">>,
                      res |-> <<NotYet, NotYet>>, err |-> <<"", "">>]
    /\ cur = S0
    /\ ngen = 0
    /\ nclone = 0

\* thread t moves to position pc, the node becomes o
Moves(t, pc, o) ==
    /\ objs' = [objs EXCEPT ![lastOp.recv] = o]
    /\ lastOp' = [lastOp EXCEPT !.pc[t] = pc]
    /\ UNCHANGED <<cur, ngen, nclone>>

\* thread t returns with the collections as they are: the memoized
\* property stores what it returns in the instance dictionary
Returns(t, o) ==
    /\ objs' = [objs EXCEPT ![lastOp.recv].memo = @ \cup {lastOp.arg.attrs[t]}]
    /\ lastOp' = [lastOp EXCEPT !.pc[t] = "done", !.res[t] = Obtained(o)]
    /\ UNCHANGED <<cur, ngen, nclone>>

\* attribute lookup: the instance dictionary first, else the property body
Lookup ==
    \E t \in Threads :
        /\ lastOp.pc[t] = "lookup"
        /\ LET o == objs[lastOp.recv]
               attr == lastOp.arg.attrs[t]
           IN IF attr \in o.memo THEN Returns(t, o)
              ELSE Moves(t, "body", o)

\* the property body: columns tests '_columns' not in self.__dict__,
\* primary_key and foreign_keys go on to _init_collections at once
EnterBody ==
    \E t \in Threads :
        /\ lastOp.pc[t] = "body"
        /\ LET o == objs[lastOp.recv]
           IN Moves(t, IF populates(o, lastOp.arg.attrs[t]) THEN "assert"
                       ELSE "return", o)

\* _init_collections: the assertions
InitAsserts ==
    \E t \in Threads :
        /\ lastOp.pc[t] = "assert"
        /\ LET o == objs[lastOp.recv]
           IN IF _init_collections_asserts(o) THEN Moves(t, "assign", o)
              ELSE /\ lastOp' = [lastOp EXCEPT !.pc[t] = "done",
                                               !.err[t] = "AssertionError"]
                   /\ UNCHANGED <<objs, cur, ngen, nclone>>

\* _init_collections: the assignments
InitAssigns ==
    \E t \in Threads :
        /\ lastOp.pc[t] = "assign"
        /\ Moves(t, "populate", _init_collections_assigns(objs[lastOp.recv]))

\* self._populate_column_collection()
Populates ==
    \E t \in Threads :
        /\ lastOp.pc[t] = "populate"
        /\ objs' = _populate_column_collection(objs, lastOp.recv).h
        /\ lastOp' = [lastOp EXCEPT !.pc[t] = "return"]
        /\ UNCHANGED <<cur, ngen, nclone>>

\* return self._columns.as_immutable(), return self.primary_key, ...
ReturnCollection ==
    \E t \in Threads :
        /\ lastOp.pc[t] = "return"
        /\ Returns(t, objs[lastOp.recv])

NextThreads ==
    \/ Lookup \/ EnterBody \/ InitAsserts \/ InitAssigns
    \/ Populates \/ ReturnCollection

SpecThreads == InitThreads /\ [][NextThreads]_vars

\* what a single thread reading the first attribute alone obtains
Sequential ==
    Obtained(read([ColumnObjs EXCEPT ![A1] = Alias(T1)],
                  lastOp.recv, lastOp.arg.attrs[1]).h[lastOp.recv])

\* every thread that has returned raised nothing and holds the collections
\* of a sequential execution, populated once
ReadersSafe ==
    LET seq == Sequential
    IN \A t \in Threads :
          lastOp.pc[t] = "done" =>
              /\ lastOp.err[t] = ""
              /\ lastOp.res[t] = seq
              /\ objs[lastOp.recv].npopulate = 1

\* C23 as stated: two threads reading columns, primary_key or foreign_keys
\* of the same node are safe in every interleaving, also when neither has
\* read the node before: no assertion fails, population runs once and both
\* obtain the collections of a sequential execution.
C23_ConcurrentReaders_AsStated == ReadersSafe

\* C23: two threads reading columns, primary_key or foreign_keys of a node
\* whose collections were populated before either thread started are safe
\* in every interleaving: no assertion fails, the populate hook does not
\* run again and both obtain the populated collections.
C23_ConcurrentReaders == lastOp.arg.before # "none" => ReadersSafe

\* both threads are inside the body of columns of a node populated by an
\* earlier read of primary_key
C23_Witness ==
    /\ lastOp.arg.before = "primary_key"
    /\ lastOp.pc = <<"return", "return">>

(***************************************************************************)
(* SpecEquivalents: correspond_on_equivalents on the objects of            *)
(* ColumnObjs, with dictionaries that map a column to a set of columns.    *)
(***************************************************************************)
\* FromClause.correspond_on_equivalents.  The test `col in equivalents`
\* looks up col, which is None at that point, not the column asked for.
\* The loop runs in the arbitrary order of a set.
correspond_on_equivalents(h, x, column, equivalents) ==
    LET col == corresponding_column(h, x, column, TRUE)
    IN IF col = NoColumn /\ col \in DOMAIN equivalents
       THEN LET ncs == { nc \in { corresponding_column(h, x, equiv, TRUE) :
                                     equiv \in equivalents[col] } :
                            nc # NoColumn }
            IN IF ncs # {} THEN CHOOSE nc \in ncs : TRUE ELSE col
       ELSE col

\* the columns used as keys and members of the dictionaries
EquivColumns == {Col(T1, "a"), Col(T1, "b"), Col(T2, "a")}

\* the dictionaries passed: empty, or one column mapped to one or two others
Equivalents ==
    {<<>>} \cup { k :> es : k \in EquivColumns,
                           es \in (SUBSET EquivColumns) \ {{}} }

\* the receivers of the call
EquivReceivers == {A1, J1, G1, AS, U1}

InitEquivalents ==
    /\ objs = ColumnObjs
    /\ cur = S0
    /\ \E x \in EquivReceivers, column \in EquivColumns \cup {Col(A1, "a")},
          equivalents \in Equivalents :
         lastOp = [op |-> "call", recv |-> x,
                   arg |-> [column |-> column, equivalents |-> equivalents],
                   res |-> NoColumn, err |-> ""]
    /\ ngen = 0
    /\ nclone = 0

CorrespondOnEquivalents ==
    /\ lastOp.op = "call"
    /\ lastOp' = [lastOp EXCEPT
                    !.op = "correspond_on_equivalents",
                    !.res = correspond_on_equivalents(objs, lastOp.recv,
                               lastOp.arg.column, lastOp.arg.equivalents)]
    /\ UNCHANGED <<objs, cur, ngen, nclone>>

NextEquivalents == CorrespondOnEquivalents

SpecEquivalents == InitEquivalents /\ [][NextEquivalents]_vars

\* C25: correspond_on_equivalents(column, equivalents) returns
\* corresponding_column(column, require_embedded=True) when that is not
\* None; when it is None and equivalents maps column to a set of columns, it
\* returns the corresponding column of an equivalent that has one; it
\* returns None only when neither the column nor an equivalent corresponds.
C25_CorrespondOnEquivalents ==
    lastOp.op = "correspond_on_equivalents" =>
        LET x == lastOp.recv
            column == lastOp.arg.column
            equivalents == lastOp.arg.equivalents
            direct == corresponding_column(objs, x, column, TRUE)
            found == IF column \in DOMAIN equivalents
                     THEN { corresponding_column(objs, x, equiv, TRUE) :
                               equiv \in equivalents[column] } \ {NoColumn}
                     ELSE {}
        IN IF direct # NoColumn THEN lastOp.res = direct
           ELSE IF found # {} THEN lastOp.res \in found
           ELSE lastOp.res = NoColumn

(***************************************************************************)
(* Claims about the columns of a CompoundSelect (SpecColumns).             *)
(***************************************************************************)
\* the CompoundSelect just built, from components of equal column count
CompoundBuilt ==
    /\ lastOp.op = "compound"
    /\ lastOp.err = ""
    /\ \A j \in 1..Len(lastOp.arg.selects) :
          Len(ExportedColumns(objs, lastOp.arg.selects[j]))
             = Len(ExportedColumns(objs, lastOp.arg.selects[1]))

\* C26: a CompoundSelect over components s1..sn that each export m columns
\* exports exactly m columns; its i-th column is a proxy of the i-th column
\* of s1 under the name s1 has for it, and its proxy lineage holds the i-th
\* column of every component sj annotated with weight j.
C26_CompoundColumns ==
    CompoundBuilt =>
        LET selects == lastOp.arg.selects
            scols == [j \in 1..Len(selects) |->
                         ExportedColumns(objs, selects[j])]
            coll == ExportedColumns(objs, lastOp.res)
        IN /\ Len(coll) = Len(scols[1])
           /\ \A i \in 1..Len(coll) :
                 /\ coll[i].key = scols[1][i].key
                 /\ coll[i].col = Col(lastOp.res, scols[1][i].key)
                 /\ coll[i].proxies[1].col = scols[1][i].col
                 /\ \A j \in 1..Len(selects) :
                       Proxied(scols[j][i].col, j)
                          \in WeightedProxySet(objs, coll[i].col, 1)

\* a CompoundSelect of select([t1.c.a]) and select([t2.c.a]) was built
C26_Witness ==
    /\ CompoundBuilt
    /\ lastOp.arg.selects = <<SA, SB>>
    /\ Len(ExportedColumns(objs, lastOp.res)) = 1

(***************************************************************************)
(* Claims about an empty FROM list (Spec).                                 *)
(***************************************************************************)
\* _get_display_froms raised InvalidRequestError or returned a list that
\* is not empty
RaisedOrShown(r) ==
    \/ r.err = "InvalidRequestError"
    \/ r.err = "" /\ r.froms # <<>>

\* C24 as stated: for every Select with at least one collected FROM source
\* and every correlate set, correlate_except set, auto-correlation flag and
\* explicit and implicit enclosing set, _get_display_froms raises
\* InvalidRequestError or returns a list that is not empty.
C24_NeverEmpty_AsStated ==
    _froms(objs, cur) # <<>> =>
        \A expl \in Enclosing : \A impl \in Enclosing :
            RaisedOrShown(_get_display_froms(objs, cur, expl, impl))

\* C24: for every Select, correlate set, correlate_except set,
\* auto-correlation flag and explicit and implicit enclosing set, when at
\* least one source is left after join hiding and the correlate and
\* correlate_except filters, _get_display_froms raises InvalidRequestError
\* or returns a list that is not empty; a list emptied by those two filters
\* is returned as it is, without an error.
C24_NeverEmpty ==
    \A expl \in Enclosing :
        LET f3 == BeforeAuto(expl)
        IN \A impl \in Enclosing :
              LET r == _get_display_froms(objs, cur, expl, impl)
              IN IF f3 # <<>> THEN RaisedOrShown(r)
                 ELSE r.err = "" /\ r.froms = <<>>

\* correlate() was called, the explicit enclosing set takes a source out
\* and leaves another, which is returned
C24_Witness ==
    /\ objs[cur].correlate # {}
    /\ \E expl \in Enclosing :
          LET f3 == BeforeAuto(expl)
          IN /\ f3 # <<>>
             /\ Len(f3) < Len(DisplayHide(objs, cur))
             /\ _get_display_froms(objs, cur, expl, {}).froms = f3

(***************************************************************************)
(* _refresh_for_new_column: a column appended to a table is announced to   *)
(* a selectable that derives from the table.                               *)
(***************************************************************************)
\* TableClause.append_column: self._columns[c.key] = c
TableClause_append_column(h, t, c) ==
    [h EXCEPT ![t]._columns = ColumnCollection_set(@, Entry(c.k, c, <<>>))]

_cols_populated(o) == o.populated

\* what _refresh_for_new_column hands back: the heap, the column returned
\* (NoColumn for None) and the error raised
Refreshed(h, col) == [h |-> h, col |-> col, err |-> ""]

\* FromClause._refresh_for_new_column, which TableClause and FromGrouping
\* inherit: the column itself when the populated collection holds it
FromClause_refresh_for_new_column(h, x, column) ==
    LET coll == ExportedColumns(h, x)
    IN IF ~_cols_populated(h[x]) THEN Refreshed(h, NoColumn)
       ELSE IF \E i \in 1..Len(coll) :
                   coll[i].key = column.k /\ coll[i].col = column
       THEN Refreshed(h, column)
       ELSE Refreshed(h, NoColumn)

\* Join._refresh_for_new_column, the populated case:
\* self._columns[col._label] = col; self.foreign_keys.add(col)
Join_add_column(h, x, col) ==
    [h EXCEPT ![x]._columns =
                 ColumnCollection_set(@, Entry(_label(h, col), col,
                                               _proxies(h, col))),
              ![x].foreign_keys = @ \cup {col}]

RECURSIVE _refresh_for_new_column(_, _, _)
RECURSIVE CompoundSelect_refresh_selects(_, _, _)
RECURSIVE Select_refresh_froms(_, _, _, _)

\* CompoundSelect._refresh_for_new_column: for s in self.selects
CompoundSelect_refresh_selects(h, ss, column) ==
    IF ss = <<>> THEN Refreshed(h, NoColumn)
    ELSE LET r == _refresh_for_new_column(h, Head(ss), column)
         IN IF r.err # "" THEN r
            ELSE CompoundSelect_refresh_selects(r.h, Tail(ss), column)

\* Select._refresh_for_new_column: for fromclause in self._froms, up to
\* the first one that hands back a column
Select_refresh_froms(h, x, fs, column) ==
    IF fs = <<>> THEN Refreshed(h, NoColumn)
    ELSE LET r == _refresh_for_new_column(h, Head(fs), column)
             o == r.h[x]
             our_label == IF o.use_labels THEN _label(r.h, r.col) ELSE r.col.k
         IN IF r.err # "" THEN r
            ELSE IF r.col = NoColumn
            THEN Select_refresh_froms(r.h, x, Tail(fs), column)
            ELSE IF /\ r.col \in Range(SelectIterables(o.raw_columns))
                    /\ _cols_populated(o)
                    /\ \A i \in 1..Len(o._columns) :
                          o._columns[i].key # our_label
            THEN Refreshed(
                    [r.h EXCEPT ![x]._columns =
                        ColumnCollection_set(@,
                           _make_proxy(x, r.col, our_label))],
                    Col(x, our_label))
            ELSE Refreshed(r.h, NoColumn)

_refresh_for_new_column(h, x, column) ==
    LET o == h[x]
    IN CASE o.kind = "join" ->
              LET l == _refresh_for_new_column(h, o.left, column)
                  r == IF l.err = "" /\ l.col = NoColumn
                       THEN _refresh_for_new_column(l.h, o.right, column)
                       ELSE l
              IN IF r.err # "" THEN r
                 ELSE IF r.col # NoColumn /\ _cols_populated(r.h[x])
                 THEN Refreshed(Join_add_column(r.h, x, r.col), r.col)
                 ELSE Refreshed(r.h, NoColumn)
         [] o.kind = "alias" ->
              LET e == _refresh_for_new_column(h, o.element, column)
              IN IF e.err # "" THEN e
                 ELSE IF e.col # NoColumn /\ _cols_populated(e.h[x])
                 THEN Refreshed(
                         [e.h EXCEPT ![x]._columns =
                             ColumnCollection_set(@,
                                _make_proxy(x, e.col, e.col.k))],
                         Col(x, e.col.k))
                 ELSE Refreshed(e.h, NoColumn)
         [] o.kind = "compound" ->
              LET r == CompoundSelect_refresh_selects(h, o.selects, column)
              IN IF r.err # "" THEN r
                 ELSE IF ~_cols_populated(r.h[x]) THEN Refreshed(r.h, NoColumn)
                 ELSE [h |-> r.h, col |-> NoColumn,
                       err |-> "NotImplementedError"]
         [] o.kind = "select" ->
              Select_refresh_froms(h, x, _froms(h, x), column)
         [] OTHER -> FromClause_refresh_for_new_column(h, x, column)

(***************************************************************************)
(* SpecRefresh: columns are appended to t1 and t2 and announced with       *)
(* _refresh_for_new_column to objects of which some have read their        *)
(* columns before.                                                         *)
(***************************************************************************)
RA2 == S0 + 1   \* a second t1.alias()
RJA == S0 + 2   \* A1.join(RA2, A1.c.a == RA2.c.a)
RGA == S0 + 3   \* FromGrouping(A1)
RSJ == S0 + 4   \* select([t1.c.a, t2.c.a]).select_from(J1)
RAS == S0 + 5   \* SA.alias()

RefreshObjs ==
    << TableClause("t1"), TableClause("t2"), TableClause("t3"),
       Alias(T1),
       Join(T1, T2, <<Col(T1, "a"), Col(T2, "a")>>, FALSE),
       FromGrouping(J1),
       Join(A1, G1, <<Col(A1, "a"), Col(T1, "a")>>, FALSE),
       Select(<<Col(T1, "a")>>, <<>>, <<>>),
       Select(<<Col(T2, "a")>>, <<>>, <<>>),
       CompoundSelect(<<SA, SB>>),
       [Alias(T1) EXCEPT !.clone_of = A1],
       Select(<<Col(A1, "a"), Col(A1, "c")>>, <<>>, <<>>),
       Alias(T1),
       Join(A1, RA2, <<Col(A1, "a"), Col(RA2, "a")>>, FALSE),
       FromGrouping(A1),
       Select(<<Col(T1, "a"), Col(T2, "a")>>, <<>>, <<J1>>),
       Alias(SA) >>

\* the objects whose columns were read before the columns are appended
Populations ==
    { <<>>, <<A1>>, <<J1>>, <<J2>>, <<U1>>, <<S0>>, <<RA2>>, <<RJA>>,
      <<A1, RA2>>, <<S0, RSJ>>, <<J2, U1, RAS, S0, RJA, RSJ>> }

\* the columns appended: one to t1, one to t2
NewColumns == {Col(T1, "c"), Col(T2, "c")}

InitRefresh ==
    /\ \E p \in Populations : objs = ReadAll(RefreshObjs, p).h
    /\ cur = S0
    /\ lastOp = NoOp
    /\ ngen = 0
    /\ nclone = 0

\* t.append_column(c)
AppendColumn ==
    \E c \in NewColumns :
        /\ c \notin ColumnsOf(ExportedColumns(objs, c.t))
        /\ objs' = TableClause_append_column(objs, c.t, c)
        /\ lastOp' = [op |-> "append_column", recv |-> c.t, arg |-> c,
                      res |-> NoColumn, err |-> ""]
        /\ UNCHANGED <<cur, ngen, nclone>>

\* x._refresh_for_new_column(column), column appended to its table before
RefreshForNewColumn ==
    \E x \in 1..Len(objs), column \in NewColumns :
        /\ ngen < MaxGen
        /\ column \in ColumnsOf(ExportedColumns(objs, column.t))
        /\ LET r == _refresh_for_new_column(objs, x, column)
           IN /\ objs' = r.h
              /\ lastOp' = [op |-> "_refresh_for_new_column", recv |-> x,
                            arg |-> [column |-> column,
                                     populated |-> _cols_populated(objs[x])],
                            res |-> r.col, err |-> r.err]
        /\ ngen' = ngen + 1
        /\ UNCHANGED <<cur, nclone>>

NextRefresh == AppendColumn \/ RefreshForNewColumn

SpecRefresh == InitRefresh /\ [][NextRefresh]_vars


\* C27: in every reachable state the foreign_keys collection of a
\* FromClause holds only foreign keys of its exported columns, never a
\* column, also after _refresh_for_new_column has added a new column to a
\* populated Join.
C27_ForeignKeysOnly ==
    \A x \in 1..Len(objs) :
        objs[x].foreign_keys \subseteq Join_foreign_keys(ExportedColumns(objs, x))

\* the selectables x wraps, at any depth
RECURSIVE Wrapped(_, _)
Wrapped(h, x) ==
    LET o == h[x]
        inner == CASE o.kind = "join" -> {o.left, o.right}
                   [] o.kind \in {"alias", "grouping"} -> {o.element}
                   [] o.kind = "compound" -> Range(o.selects)
                   [] o.kind = "select" -> Range(_froms(h, x))
                   [] OTHER -> {}
    IN inner \cup UNION {Wrapped(h, y) : y \in inner}

\* y exports every column of table t: t itself, or an alias, join or
\* grouping of such an object
RECURSIVE ExportsAll(_, _, _)
ExportsAll(h, y, t) ==
    LET o == h[y]
    IN CASE o.kind = "table" -> y = t
         [] o.kind \in {"alias", "grouping"} -> ExportsAll(h, o.element, t)
         [] o.kind = "join" ->
              ExportsAll(h, o.left, t) \/ ExportsAll(h, o.right, t)
         [] OTHER -> FALSE

\* C30: _refresh_for_new_column(column) on a Join, Alias, FromGrouping,
\* Select or CompoundSelect whose collection is not populated returns None,
\* leaves it unpopulated and passes the message on to what it wraps: every
\* populated alias or join nested beneath it that derives from the table of
\* the column has the column in its collection afterwards.
C30_UnpopulatedPassesOn ==
    (/\ lastOp.op = "_refresh_for_new_column"
     /\ ~lastOp.arg.populated
     /\ objs[lastOp.recv].kind # "table"
     /\ lastOp.err = "")
    => /\ lastOp.res = NoColumn
       /\ ~_cols_populated(objs[lastOp.recv])
       /\ \A y \in Wrapped(objs, lastOp.recv) :
             (/\ objs[y].kind \in {"alias", "join"}
              /\ _cols_populated(objs[y])
              /\ ExportsAll(objs, y, lastOp.arg.column.t))
             => \E c \in ColumnsOf(ExportedColumns(objs, y)) :
                   lastOp.arg.column \in proxy_set(objs, c)

(***************************************************************************)
(* SpecAppend: the caller's Select is changed in place with append_column, *)
(* append_from and append_whereclause, and its columns are read, in any    *)
(* order.                                                                  *)
(***************************************************************************)
AppendColumnArgs == {Col(T3, "a"), Col(T3, "b"), Col(T1, "a"), BadCol}
AppendFromArgs == {J1, BadFrom}
AppendWhereArgs == {Col(T2, "a")}

\* an in-place method of the caller's Select: the object is changed also
\* when the call raises after _reset_exported
InPlace(op, arg) ==
    /\ ngen < MaxGen
    /\ LET r == fn(op, objs[cur], arg)
       IN /\ objs' = [objs EXCEPT ![cur] = r.o]
          /\ lastOp' = [op |-> op, recv |-> cur,
                        arg |-> [arg |-> arg,
                                 populated |-> objs[cur].populated],
                        res |-> <<>>, err |-> r.err]
    /\ ngen' = ngen + 1
    /\ UNCHANGED <<cur, nclone>>

AppendColumnInPlace == \E c \in AppendColumnArgs : InPlace("column", c)

AppendFromInPlace == \E f \in AppendFromArgs : InPlace("select_from", f)

AppendWhereInPlace == \E w \in AppendWhereArgs : InPlace("where", w)

\* s.columns, first read or not: the collection handed back, and the call
\* that came before the read
ColumnsRead ==
    /\ lastOp.op # "columns"
    /\ objs' = [objs EXCEPT ![cur] = columns(objs[cur])]
    /\ lastOp' = [op |-> "columns", recv |-> cur,
                  arg |-> [op |-> lastOp.op, err |-> lastOp.err,
                           populated |->
                              IF lastOp.op = "init" THEN FALSE
                              ELSE lastOp.arg.populated],
                  res |-> columns(objs[cur]).columns, err |-> ""]
    /\ UNCHANGED <<cur, ngen, nclone>>

NextAppend ==
    \/ AppendColumnInPlace \/ AppendFromInPlace \/ AppendWhereInPlace
    \/ ColumnsRead

SpecAppend == Init /\ [][NextAppend]_vars

\* the distinct proxyable columns of the raw_columns, in order
DistinctColumns(o) == OrderedSet(SelectIterables(o.raw_columns))

\* the key a column is exported under
ExportKey(o, c) == IF o.use_labels THEN <<c.t, c.k>> ELSE <<0, c.k>>

\* C28 as stated: each read of columns returns a collection built from the
\* raw_columns current at that read, one proxy per distinct proxyable
\* column, in raw_columns order; a memoized collection that predates an
\* append_column is never returned.
C28_ColumnsCurrent_AsStated ==
    lastOp.op = "columns" =>
        LET cols == DistinctColumns(objs[cur])
        IN /\ Len(lastOp.res) = Len(cols)
           /\ \A i \in 1..Len(cols) : lastOp.res[i].col = cols[i]

\* C28: each read of columns returns a collection built from the
\* raw_columns current at that read: one entry per distinct key of the
\* distinct proxyable columns, in the order in which the keys first occur,
\* holding the last column with that key; a memoized collection that
\* predates an append_column is never returned.
C28_ColumnsCurrent ==
    lastOp.op = "columns" =>
        LET o == objs[cur]
            cols == DistinctColumns(o)
            keys == OrderedSet([i \in 1..Len(cols) |-> ExportKey(o, cols[i])])
        IN /\ Len(lastOp.res) = Len(keys)
           /\ \A j \in 1..Len(keys) :
                 /\ lastOp.res[j].key = keys[j]
                 /\ \E i \in 1..Len(cols) :
                       /\ lastOp.res[j].col = cols[i]
                       /\ ExportKey(o, cols[i]) = keys[j]
                       /\ \A n \in (i + 1)..Len(cols) :
                             ExportKey(o, cols[n]) # keys[j]

\* the columns are read right after an append_column on a Select whose
\* columns had been read before, and the column appended is among them
C28_Witness ==
    /\ lastOp.op = "columns"
    /\ lastOp.arg.op = "column"
    /\ lastOp.arg.err = ""
    /\ lastOp.arg.populated
    /\ \E i \in 1..Len(lastOp.res) : lastOp.res[i].col = Col(T3, "b")



====
